---- MODULE Spec2Model ----
(***************************************************************************)
(* Model of the food composition pipeline of mcp-server/src/food-service.ts *)
(* (suggestFood and its helpers).                                          *)
(*                                                                         *)
(* Text is a sequence of one-character strings, so that toLowerCase,       *)
(* includes and the regular expressions of the source are computed         *)
(* character by character.  JavaScript numbers are integers here; the      *)
(* value undefined is kept apart from 0 by a tag.                          *)
(***************************************************************************)
EXTENDS Integers, Sequences, FiniteSets, TLC

VARIABLES
    \* --- one suggestFood request ---
    pc,                  \* position of the request in suggestFood
    params,              \* SuggestionParams of the request
    keys,                \* provider keys after merging config and transient keys
    contextText,         \* quantity-bearing text scraped into contextText
    extractedIngredients,\* result of extractIngredientsFromText(contextText)
    totalGrams,          \* result of inferTotalGrams
    aiResult,            \* parsed provider output (or null)
    ret,                 \* what the promise settles to
    refIdx,              \* index of the next reference locator of params.ids
    typesFile,           \* the type literals a scan of the registry file yields
    cachedProcessTypes,  \* the module-level cache of getDefinedProcessTypes
    configKeys,          \* provider keys of the server configuration (getAIKeys)
    hint,                \* Authorization and x-ai-provider headers of the request
    offCall, fdcCall,    \* the two catalog lookups: "idle", "pending", "body", "settled"
    offResponse, fdcResponse, \* what each catalog source answered
    products, fdcProducts,    \* the lists the two lookups assign
    candidates,          \* the candidate list built from both
    branches,            \* provider branches of the if / else-if chain still to run
    inFlight,            \* providers whose call is awaited
    providerLog,         \* the provider calls issued, in order, with their outcome
    \* --- direct calls of pickClosestProcessType ---
    pickArgs, pickResult,
    \* --- direct calls of extractIngredientsFromText ---
    extractText, extractResult,
    \* --- the type registry tools of mcp-server/src/index.ts ---
    typesContent, defaultAuthToken, lastCall,
    \* --- direct calls of the extracted-list mapping of lines 439-461 ---
    distArgs, distResult,
    \* --- several requests that share the cache of getDefinedProcessTypes ---
    registry,            \* the registry file on disk: whether it exists, its type literals
    sharedCache,         \* the module-level cachedProcessTypes
    registryReads,       \* how often readFileSync has read the registry
    reqState,            \* per request: "waiting", "called" (past line 302) or "done"
    validTypesOf,        \* per request: the list line 302 returned to it
    seenAtEnd,           \* per request: that same array as line 507 finds it
    \* --- direct calls of the pure helpers ---
    inferArgs, inferResult,
    recInputs, recTotal, recText, recPhase, recOrig, recPass1

keyVars == <<configKeys, hint>>
catalogVars == <<offCall, fdcCall, offResponse, fdcResponse, products, fdcProducts, candidates>>
providerVars == <<branches, inFlight, providerLog>>
netVars == <<keyVars, catalogVars, providerVars>>
foodVars == <<pc, params, keys, contextText, extractedIngredients, totalGrams, aiResult, ret,
              refIdx, typesFile, cachedProcessTypes, netVars>>
inferVars == <<inferArgs, inferResult>>
recVars == <<recInputs, recTotal, recText, recPhase, recOrig, recPass1>>
pickVars == <<pickArgs, pickResult>>
extractVars == <<extractText, extractResult>>
toolVars == <<typesContent, defaultAuthToken, lastCall>>
distVars == <<distArgs, distResult>>
cacheVars == <<registry, sharedCache, registryReads, reqState, validTypesOf, seenAtEnd>>
unitVars == <<distVars, cacheVars>>
helperVars == <<inferVars, recVars, pickVars, extractVars, toolVars, unitVars>>
vars == <<foodVars, helperVars>>

(***************************************************************************)
(* Bounds of the model                                                     *)
(***************************************************************************)
MaxTextLen == 3        \* length of the generated query strings
MaxTotal == 2          \* largest explicit params.quantity
MaxIngredients == 4    \* length of an extracted ingredient list
MaxInputs == 2         \* length of the provider's inputInstances list
MaxChildren == 3       \* length of a child list given to the reconciler
MaxListed == 3         \* ingredients written in a text given to the extractor
MaxProducts == 11      \* products in the answer of a catalog source
MaxDefs == 3           \* definitions in the types file
MaxRequests == 3       \* requests that share the process-type cache

(***************************************************************************)
(* Strings                                                                 *)
(***************************************************************************)
Digits == <<"0", "1", "2", "3", "4", "5", "6", "7", "8", "9">>
UpperCase == <<"A", "B", "C", "D", "E", "F", "G", "H", "I", "J", "K", "L", "M",
               "N", "O", "P", "Q", "R", "S", "T", "U", "V", "W", "X", "Y", "Z">>
LowerCase == <<"a", "b", "c", "d", "e", "f", "g", "h", "i", "j", "k", "l", "m",
               "n", "o", "p", "q", "r", "s", "t", "u", "v", "w", "x", "y", "z">>

Range(s) == {s[i] : i \in DOMAIN s}
IndexOf(c, s) == CHOOSE i \in DOMAIN s : s[i] = c

DigitChars == Range(Digits)
UpperChars == Range(UpperCase)
WordChars == Range(UpperCase) \cup Range(LowerCase) \cup Range(Digits) \cup {"_"}
AlnumLowerChars == Range(LowerCase) \cup Range(Digits)
LowerOf == [c \in UpperChars |-> LowerCase[IndexOf(c, UpperCase)]]

IsDigit(c) == c \in DigitChars
DigitVal(c) == IndexOf(c, Digits) - 1
IsSpace(c) == c \in {" ", "\n", "\t"}
\* \w of a JavaScript regular expression: [A-Za-z0-9_]
IsWordChar(c) == c \in WordChars

\* String.prototype.toLowerCase
LowerChar(c) == IF c \in UpperChars THEN LowerOf[c] ELSE c
ToLowerCase(s) == [i \in DOMAIN s |-> LowerChar(s[i])]

\* String.prototype.includes
Includes(s, sub) ==
    \E i \in 1..(Len(s) - Len(sub) + 1) : SubSeq(s, i, i + Len(sub) - 1) = sub

\* Array.prototype.join for strings
RECURSIVE Join(_, _)
Join(parts, sep) ==
    IF Len(parts) = 0 THEN <<>>
    ELSE IF Len(parts) = 1 THEN parts[1]
    ELSE parts[1] \o sep \o Join(Tail(parts), sep)

\* all strings over an alphabet up to a length
RECURSIVE StringsUpTo(_, _)
StringsUpTo(alphabet, n) ==
    IF n = 0 THEN {<<>>}
    ELSE LET shorter == StringsUpTo(alphabet, n - 1)
         IN shorter \cup {Append(s, c) : s \in {t \in shorter : Len(t) = n - 1}, c \in alphabet}

RECURSIVE Pow10(_)
Pow10(n) == IF n = 0 THEN 1 ELSE 10 * Pow10(n - 1)

RECURSIVE DigitsValue(_)
DigitsValue(ds) ==
    IF Len(ds) = 0 THEN 0
    ELSE 10 * DigitsValue(SubSeq(ds, 1, Len(ds) - 1)) + DigitVal(ds[Len(ds)])

\* Math.round: the nearest integer, halves towards +infinity
RoundDiv(num, den) == (2 * num + den) \div (2 * den)

(***************************************************************************)
(* JavaScript values                                                       *)
(***************************************************************************)
Num(n) == [t |-> "number", n |-> n]
Undefined == [t |-> "undefined", n |-> 0]
\* Number(x || 0), x || 0
ToNumber(q) == q.n
Truthy(q) == q.t = "number" /\ q.n # 0

(***************************************************************************)
(* inferTotalGrams                                                         *)
(***************************************************************************)
\* the last index of the run of characters satisfying the class, starting at i
RECURSIVE DigitRunEnd(_, _)
DigitRunEnd(s, i) ==
    IF i + 1 <= Len(s) /\ IsDigit(s[i + 1]) THEN DigitRunEnd(s, i + 1) ELSE i

RECURSIVE SpaceRunEnd(_, _)
SpaceRunEnd(s, k) ==
    IF k + 1 <= Len(s) /\ IsSpace(s[k + 1]) THEN SpaceRunEnd(s, k + 1) ELSE k

\* the word boundary \b after position e, whose character is a word character
BoundaryAfter(s, e) == e = Len(s) \/ ~IsWordChar(s[e + 1])

\* /(\d+(?:[\.,]\d+)?)\s*(u1|u2|...)\b/ anchored at position i
UnitMatchAt(s, i, units) ==
    IF ~(i <= Len(s) /\ IsDigit(s[i])) THEN [ok |-> FALSE, int |-> <<>>, frac |-> <<>>]
    ELSE
        LET j == DigitRunEnd(s, i)
            hasFrac == j + 2 <= Len(s) /\ s[j + 1] \in {".", ","} /\ IsDigit(s[j + 2])
            k == IF hasFrac THEN DigitRunEnd(s, j + 2) ELSE j
            m == SpaceRunEnd(s, k)
            unitOk == \E x \in DOMAIN units :
                          /\ m + Len(units[x]) <= Len(s)
                          /\ SubSeq(s, m + 1, m + Len(units[x])) = units[x]
                          /\ BoundaryAfter(s, m + Len(units[x]))
        IN [ok |-> unitOk,
            int |-> SubSeq(s, i, j),
            frac |-> IF hasFrac THEN SubSeq(s, j + 2, k) ELSE <<>>]

\* String.prototype.match with that expression: the leftmost match
UnitMatch(s, units) ==
    LET starts == {i \in DOMAIN s : UnitMatchAt(s, i, units).ok}
    IN IF starts = {} THEN [ok |-> FALSE, int |-> <<>>, frac |-> <<>>]
       ELSE UnitMatchAt(s, CHOOSE i \in starts : \A j \in starts : i <= j, units)

\* Math.round(parseFloat(m[1].replace(',', '.')) * factor)
RoundedAmount(m, factor) ==
    RoundDiv((DigitsValue(m.int) * Pow10(Len(m.frac)) + DigitsValue(m.frac)) * factor,
             Pow10(Len(m.frac)))

LiterUnits == << <<"l">>, <<"l", "i", "t", "e", "r">>, <<"l", "i", "t", "r", "e">> >>
MlUnits == << <<"m", "l">> >>
KgUnits == << <<"k", "g">> >>
GUnits == << <<"g">> >>
OneL == <<"1", "l">>
OneLiter == <<"1", " ", "l", "i", "t", "e", "r">>
OneLitre == <<"1", " ", "l", "i", "t", "r", "e">>
Space == <<" ">>

NullTotal == [isNull |-> TRUE, n |-> 0]
Grams(n) == [isNull |-> FALSE, n |-> n]

\* the joined, lower-cased text the expressions are run on
InferSources(query, context, ids) ==
    ToLowerCase(Join(<<query, context>> \o [i \in DOMAIN ids |-> ids[i].id], Space))

\* the last resort of inferTotalGrams (line 172)
OneLiterFallback(lower) ==
    Includes(lower, OneL) \/ Includes(lower, OneLiter) \/ Includes(lower, OneLitre)

InferTotalGrams(query, context, ids, explicitQuantity) ==
    IF explicitQuantity.t = "number" /\ explicitQuantity.n > 0 THEN Grams(explicitQuantity.n)
    ELSE
        LET lower == InferSources(query, context, ids)
            literMatch == UnitMatch(lower, LiterUnits)
            mlMatch == UnitMatch(lower, MlUnits)
            kgMatch == UnitMatch(lower, KgUnits)
            gMatch == UnitMatch(lower, GUnits)
        IN IF literMatch.ok THEN Grams(RoundedAmount(literMatch, 1000))
           ELSE IF mlMatch.ok THEN Grams(RoundedAmount(mlMatch, 1))
           ELSE IF kgMatch.ok THEN Grams(RoundedAmount(kgMatch, 1000))
           ELSE IF gMatch.ok THEN Grams(RoundedAmount(gMatch, 1))
           ELSE IF OneLiterFallback(lower) THEN Grams(1000)
           ELSE NullTotal

\* totalGrams used as a condition: null and 0 are falsy
TotalKnown(total) == ~total.isNull /\ total.n # 0

(***************************************************************************)
(* The instance tree                                                       *)
(*   input   : null | { instance: { type, process? }, quantity }           *)
(*   process : absent | { type, inputInstances }                           *)
(*   inputInstances : undefined | a plain object | a non-empty string |    *)
(*                    an array of inputs                                   *)
(***************************************************************************)
StrLabel(s) == [t |-> "string", s |-> s]
NoLabel == [t |-> "undefined", s |-> <<>>]
NumberLabel == [t |-> "number", s |-> <<>>]     \* a truthy non-string JSON value

Array(items) == [kind |-> "array", items |-> items]
NoInputs == [kind |-> "undefined", items |-> <<>>]
ObjectInputs == [kind |-> "object", items |-> <<>>]
StringInputs == [kind |-> "string", items |-> <<>>]

NoProcess == [present |-> FALSE, type |-> NoLabel, inputInstances |-> NoInputs]
Process(type, inputInstances) ==
    [present |-> TRUE, type |-> type, inputInstances |-> inputInstances]

NullInput == [null |-> TRUE, type |-> <<>>, quantity |-> Undefined, process |-> NoProcess]
Input(type, quantity, process) ==
    [null |-> FALSE, type |-> type, quantity |-> quantity, process |-> process]

sWater == <<"W", "a", "t", "e", "r">>
sSalt == <<"S", "a", "l", "t">>
swater == <<"w", "a", "t", "e", "r">>
sviz == <<"v", "iacute", "z">>

\* i?.quantity
QuantityOf(i) == IF i.null THEN Undefined ELSE i.quantity

RECURSIVE SumQuantities(_)
SumQuantities(items) ==
    IF Len(items) = 0 THEN 0
    ELSE ToNumber(QuantityOf(items[1])) + SumQuantities(Tail(items))

\* the predicate of the three find(...) calls that look for a water child
IsWaterLike(i) ==
    LET n == ToLowerCase(IF i.null THEN <<>> ELSE i.type)
    IN Includes(n, swater) \/ Includes(n, sviz)

HasWater(items) == \E x \in DOMAIN items : IsWaterLike(items[x])
FirstWater(items) ==
    CHOOSE x \in DOMAIN items :
        IsWaterLike(items[x]) /\ \A y \in DOMAIN items : IsWaterLike(items[y]) => x <= y

\* water.quantity = (water.quantity || 0) + amount, on the first water child if any
AddToWater(items, amount) ==
    IF HasWater(items)
    THEN [items EXCEPT ![FirstWater(items)].quantity = Num(ToNumber(@) + amount)]
    ELSE items

(***************************************************************************)
(* normalizeInputQuantitiesToGrams                                         *)
(***************************************************************************)
\* the detection with the sum limit of 100 instead of 110
LooksLikePercent_SumLimit100(items) ==
    /\ SumQuantities(items) > 0
    /\ SumQuantities(items) <= 100
    /\ \A x \in DOMAIN items :
           ToNumber(QuantityOf(items[x])) >= 0 /\ ToNumber(QuantityOf(items[x])) <= 100

LooksLikePercent(items) ==
    /\ SumQuantities(items) > 0
    /\ SumQuantities(items) <= 110
    /\ \A x \in DOMAIN items :
           ToNumber(QuantityOf(items[x])) >= 0 /\ ToNumber(QuantityOf(items[x])) <= 100

\* Math.round((totalGrams * percent) / 100)
PercentToGrams(total, percent) == RoundDiv(total * percent, 100)

\* the result of a helper that mutates the list: the list, or an exception
Threw(items) == [threw |-> TRUE, items |-> items]
Returned(items) == [threw |-> FALSE, items |-> items]

NormalizeInputQuantitiesToGrams(inputInstances, total) ==
    IF ~TotalKnown(total) \/ inputInstances.kind # "array" \/ Len(inputInstances.items) = 0
    THEN Returned(inputInstances.items)
    ELSE
        LET items == inputInstances.items
        IN IF ~LooksLikePercent(items) THEN Returned(items)
           ELSE IF \E x \in DOMAIN items : items[x].null
           THEN Threw(items)      \* input.quantity = grams on a null entry
           ELSE
               LET converted ==
                       [x \in DOMAIN items |->
                           [items[x] EXCEPT
                               !.quantity = Num(PercentToGrams(total.n, ToNumber(items[x].quantity)))]]
                   gramsSum == SumQuantities(converted)
               IN IF gramsSum < total.n
                  THEN Returned(AddToWater(converted, total.n - gramsSum))
                  ELSE Returned(converted)

(***************************************************************************)
(* The liquid filler backfill of suggestFood                               *)
(***************************************************************************)
WaterKeywords ==
    { <<"w", "a", "t", "e", "r">>, <<"l", "i", "q", "u", "i", "d">>, <<"d", "r", "i", "n", "k">>,
      <<"b", "e", "v", "e", "r", "a", "g", "e">>, <<"s", "o", "u", "p">>,
      <<"b", "r", "o", "t", "h">>, <<"j", "u", "i", "c", "e">>,
      <<"c", "l", "e", "a", "n", "e", "r">>, <<"d", "e", "t", "e", "r", "g", "e", "n", "t">>,
      <<"v", "i", "n", "e", "g", "a", "r">>, <<"s", "p", "r", "a", "y">> }

\* `${aiResult.type || ''} ${aiResult.description || ''} ${query}`.toLowerCase()
ItemText(type, description, query) == ToLowerCase(type \o Space \o description \o Space \o query)

WaterLikely(text) == \E k \in WaterKeywords : Includes(text, k)

Max(a, b) == IF a >= b THEN a ELSE b

\* the backfill that adds the whole total instead of the shortfall
LiquidBackfill_NoSubtract(inputInstances, total, text) ==
    IF ~TotalKnown(total) \/ inputInstances.kind = "undefined"
    THEN Returned(inputInstances.items)
    ELSE IF inputInstances.kind # "array"
    THEN Threw(inputInstances.items)
    ELSE
        LET items == inputInstances.items
            remaining == total.n
        IN IF remaining > 0 /\ WaterLikely(text)
           THEN IF HasWater(items)
                THEN Returned(AddToWater(items, remaining))
                ELSE Returned(Append(items, Input(sWater, Num(remaining), NoProcess)))
           ELSE Returned(items)

\* a backfill that appends a Water child without looking for an existing one
LiquidBackfill_AlwaysAppends(inputInstances, total, text) ==
    IF ~TotalKnown(total) \/ inputInstances.kind = "undefined"
    THEN Returned(inputInstances.items)
    ELSE IF inputInstances.kind # "array"
    THEN Threw(inputInstances.items)
    ELSE
        LET items == inputInstances.items
            remaining == Max(0, total.n - SumQuantities(items))
        IN IF remaining > 0 /\ WaterLikely(text)
           THEN Returned(Append(items, Input(sWater, Num(remaining), NoProcess)))
           ELSE Returned(items)

LiquidBackfill(inputInstances, total, text) ==
    IF ~TotalKnown(total) \/ inputInstances.kind = "undefined"
    THEN Returned(inputInstances.items)
    ELSE IF inputInstances.kind # "array"
    THEN Threw(inputInstances.items)       \* inputInstances.reduce is not a function
    ELSE
        LET items == inputInstances.items
            remaining == Max(0, total.n - SumQuantities(items))
        IN IF remaining > 0 /\ WaterLikely(text)
           THEN IF HasWater(items)
                THEN Returned(AddToWater(items, remaining))
                ELSE Returned(Append(items, Input(sWater, Num(remaining), NoProcess)))
           ELSE Returned(items)

\* lines 480-504: the reconciliation pass over one list of children
ReconcilePass(items, total, text) ==
    LiquidBackfill(Array(NormalizeInputQuantitiesToGrams(Array(items), total).items), total, text).items

(***************************************************************************)
(* The type registry and the process type classifier                       *)
(***************************************************************************)
tPrinting == <<"p", "r", "i", "n", "t", "i", "n", "g">>
tMilling == <<"m", "i", "l", "l", "i", "n", "g">>
tFreezedrying == <<"f", "r", "e", "e", "z", "e", "d", "r", "y", "i", "n", "g">>
tBlending == <<"b", "l", "e", "n", "d", "i", "n", "g">>
tSale == <<"s", "a", "l", "e">>
tHarvest == <<"h", "a", "r", "v", "e", "s", "t">>
tPackaging == <<"p", "a", "c", "k", "a", "g", "i", "n", "g">>
tStorage == <<"s", "t", "o", "r", "a", "g", "e">>
tCooking == <<"c", "o", "o", "k", "i", "n", "g">>

\* the literals the registry scan finds in src/index.d.ts, in file order
RegistryFileTypes ==
    <<tPrinting, tMilling, tFreezedrying, tBlending, tSale, tHarvest, tPackaging, tStorage, tCooking>>
\* the list used when the scan finds nothing
DefaultProcessTypes == <<tPrinting, tMilling, tFreezedrying, tBlending, tHarvest, tSale>>

\* a reader that scans the registry on every call
GetDefinedProcessTypes_NoCache(cache, scanned) ==
    IF Len(scanned) > 0 THEN scanned ELSE DefaultProcessTypes

\* getDefinedProcessTypes: the cache after the call, which is what the call returns
GetDefinedProcessTypes(cache, scanned) ==
    IF Len(cache) > 0 THEN cache
    ELSE IF Len(scanned) > 0 THEN scanned
    ELSE DefaultProcessTypes

\* validProcessTypes.filter(t => t !== 'harvest' && t !== 'sale')
RECURSIVE RankedProcessTypes(_)
RankedProcessTypes(validTypes) ==
    IF Len(validTypes) = 0 THEN <<>>
    ELSE IF validTypes[1] # tHarvest /\ validTypes[1] # tSale
    THEN <<validTypes[1]>> \o RankedProcessTypes(Tail(validTypes))
    ELSE RankedProcessTypes(Tail(validTypes))

\* s.toLowerCase().replace(/[^a-z0-9]+/g, ' ').trim()
IsAlnumLower(c) == c \in AlnumLowerChars
RECURSIVE CollapseSpaces(_)
CollapseSpaces(s) ==
    IF Len(s) = 0 THEN <<>>
    ELSE IF s[1] = " " /\ Len(s) > 1 /\ s[2] = " " THEN CollapseSpaces(Tail(s))
    ELSE <<s[1]>> \o CollapseSpaces(Tail(s))
Trim(s) ==
    LET inner == {i \in DOMAIN s : s[i] # " "}
    IN IF inner = {} THEN <<>>
       ELSE SubSeq(s, CHOOSE i \in inner : \A j \in inner : i <= j,
                      CHOOSE i \in inner : \A j \in inner : i >= j)
NormalizeLabel(s) ==
    LET lower == ToLowerCase(s)
    IN Trim(CollapseSpaces([i \in DOMAIN lower |-> IF IsAlnumLower(lower[i]) THEN lower[i] ELSE " "]))

\* new Set(s.split(' ').filter(Boolean)): the maximal runs without a space
RECURSIVE TokensFrom(_, _, _)
TokensFrom(s, i, current) ==
    IF i > Len(s) THEN (IF current = <<>> THEN {} ELSE {current})
    ELSE IF s[i] = " "
    THEN (IF current = <<>> THEN {} ELSE {current}) \cup TokensFrom(s, i + 1, <<>>)
    ELSE TokensFrom(s, i + 1, Append(current, s[i]))
Tokens(s) == TokensFrom(s, 1, <<>>)

HasAny(raw, words) == \E w \in words : Includes(raw, w)

\* the alternatives of the four expressions of lines 71-74
BlendWords == { <<"b", "l", "e", "n", "d">>, <<"m", "i", "x">>,
                <<"b", "e", "v", "e", "r", "a", "g", "e">>, <<"d", "r", "i", "n", "k">>,
                <<"l", "i", "q", "u", "i", "d">>, <<"e", "m", "u", "l", "s", "i", "o", "n">>,
                <<"i", "n", "f", "u", "s", "i", "o", "n">> }
MillWords == { <<"m", "i", "l", "l">>, <<"g", "r", "i", "n", "d">>,
               <<"p", "o", "w", "d", "e", "r">>, <<"p", "a", "s", "t", "e">> }
DryWords == { <<"d", "r", "y">>, <<"d", "e", "h", "y", "d", "r", "a", "t">>,
              <<"f", "r", "e", "e", "z", "e">> }
PrintWords == { <<"p", "r", "i", "n", "t">> }

\* the keys of the boosts record: the types that get 0.35 added
Boosts(raw) ==
    (IF HasAny(raw, BlendWords) THEN {tBlending} ELSE {}) \cup
    (IF HasAny(raw, MillWords) THEN {tMilling} ELSE {}) \cup
    (IF HasAny(raw, DryWords) THEN {tFreezedrying} ELSE {}) \cup
    (IF HasAny(raw, PrintWords) THEN {tPrinting} ELSE {})

\* new Set(normalize(t).split(' ').filter(Boolean)), kept for the registry's types
RegistryTypeTokens ==
    [t \in Range(RegistryFileTypes) \cup Range(DefaultProcessTypes) |-> Tokens(NormalizeLabel(t))]
TypeTokens(t) ==
    IF t \in DOMAIN RegistryTypeTokens THEN RegistryTypeTokens[t] ELSE Tokens(NormalizeLabel(t))

\* tokenScore + boost as the fraction num / den, in hundredths
Score(rawTokens, boosts, t) ==
    LET tTokens == TypeTokens(t)
        inter == Cardinality(rawTokens \cap tTokens)
        u == Cardinality(rawTokens) + Cardinality(tTokens) - inter
        union == IF u = 0 THEN 1 ELSE u
    IN [num |-> 100 * inter + (IF t \in boosts THEN 35 ELSE 0) * union, den |-> 100 * union]

Higher(a, b) == a.num * b.den > b.num * a.den

\* the index of the first type with the highest score among validTypes[i..]
\* and the best seen before: what the stable descending sort puts in front
RECURSIVE BestFrom(_, _, _, _, _, _)
BestFrom(rawTokens, boosts, validTypes, i, best, bestScore) ==
    IF i > Len(validTypes) THEN best
    ELSE LET score == Score(rawTokens, boosts, validTypes[i])
         IN IF Higher(score, bestScore)
            THEN BestFrom(rawTokens, boosts, validTypes, i + 1, i, score)
            ELSE BestFrom(rawTokens, boosts, validTypes, i + 1, best, bestScore)

\* rankProcessTypes(rawType, validTypes)[0].type
TopRanked(rawString, validTypes) ==
    LET raw == NormalizeLabel(rawString)
        rawTokens == Tokens(raw)
        boosts == Boosts(raw)
    IN validTypes[BestFrom(rawTokens, boosts, validTypes, 2, 1,
                           Score(rawTokens, boosts, validTypes[1]))]

\* pickClosestProcessType: a valid type, or the exception of s.toLowerCase on a non-string
PickThrows(rawType, validTypes) == rawType.t = "number"

\* the classification without the shortcut of line 91 and with the ranking
\* sorted in ascending order: the first type with the lowest score
PickClosestProcessType_AscendingNoShortcut(rawType, validTypes) ==
    IF Len(validTypes) = 0 THEN tBlending
    ELSE LET raw == NormalizeLabel(rawType.s)
             score(i) == Score(Tokens(raw), Boosts(raw), validTypes[i])
             lowest == {i \in DOMAIN validTypes : \A j \in DOMAIN validTypes : ~Higher(score(i), score(j))}
         IN validTypes[CHOOSE i \in lowest : \A j \in lowest : i <= j]

PickClosestProcessType(rawType, validTypes) ==
    IF rawType.t = "string" /\ rawType.s \in Range(validTypes) THEN rawType.s
    ELSE IF Len(validTypes) = 0 THEN tBlending
    ELSE TopRanked(rawType.s, validTypes)

\* normalizeProcessTypes on instance.process, without the descent into the inputs
NormalizeProcess_TopOnly(proc, validTypes) ==
    IF ~proc.present THEN [threw |-> FALSE, process |-> proc]
    ELSE IF PickThrows(proc.type, validTypes) THEN [threw |-> TRUE, process |-> proc]
    ELSE [threw |-> FALSE,
          process |-> [proc EXCEPT !.type = StrLabel(PickClosestProcessType(proc.type, validTypes))]]

\* normalizeProcessTypes(instance, validTypes), on instance.process, and the
\* loop of lines 106-110 over its inputs
RECURSIVE NormalizeProcess(_, _)
RECURSIVE NormalizeInputs(_, _)
NormalizeInputs(items, validTypes) ==
    IF Len(items) = 0 THEN [threw |-> FALSE, items |-> <<>>]
    ELSE
        LET head == IF items[1].null THEN [threw |-> FALSE, process |-> NoProcess]
                    ELSE NormalizeProcess(items[1].process, validTypes)
            rest == NormalizeInputs(Tail(items), validTypes)
        IN [threw |-> head.threw \/ rest.threw,
            items |-> <<IF items[1].null THEN items[1]
                        ELSE [items[1] EXCEPT !.process = head.process]>> \o rest.items]

NormalizeProcess(proc, validTypes) ==
    IF ~proc.present THEN [threw |-> FALSE, process |-> proc]
    ELSE IF PickThrows(proc.type, validTypes) THEN [threw |-> TRUE, process |-> proc]
    ELSE
        LET typed == [proc EXCEPT !.type = StrLabel(PickClosestProcessType(proc.type, validTypes))]
        IN IF proc.inputInstances.kind # "array" \/ Len(proc.inputInstances.items) = 0
           THEN [threw |-> FALSE, process |-> typed]
           ELSE
               LET inputs == NormalizeInputs(proc.inputInstances.items, validTypes)
               IN [threw |-> inputs.threw,
                   process |-> [typed EXCEPT !.inputInstances = Array(inputs.items)]]

(***************************************************************************)
(* suggestFood: the synchronous part after the provider call               *)
(***************************************************************************)
Item(type, description, quantity, process) ==
    [isNull |-> FALSE, type |-> type, description |-> description,
     quantity |-> quantity, process |-> process]
NullResult == [isNull |-> TRUE, type |-> <<>>, description |-> <<>>,
               quantity |-> Undefined, process |-> NoProcess]

\* the fallback of lines 407-416
DefaultTemplate(query) == Item(query, <<>>, Num(0), Process(StrLabel(tBlending), Array(<<>>)))

\* inputInstances.every(i => i.quantity === 0 || i.quantity === undefined):
\* every stops at the first entry that fails, and reading null.quantity throws
RECURSIVE EveryZero(_)
EveryZero(items) ==
    IF Len(items) = 0 THEN [threw |-> FALSE, value |-> TRUE]
    ELSE IF items[1].null THEN [threw |-> TRUE, value |-> FALSE]
    ELSE IF ToNumber(items[1].quantity) = 0 THEN EveryZero(Tail(items))
    ELSE [threw |-> FALSE, value |-> FALSE]

\* aiResult.process?.inputInstances?.length > 0
LengthPositive(proc) ==
    /\ proc.present
    /\ \/ proc.inputInstances.kind = "array" /\ Len(proc.inputInstances.items) > 0
       \/ proc.inputInstances.kind = "string"

\* the test of lines 419 and 427 raises: every is no function of a string,
\* or the callback reads the quantity of null
AllZeroThrows(proc) ==
    /\ LengthPositive(proc)
    /\ \/ proc.inputInstances.kind = "string"
       \/ EveryZero(proc.inputInstances.items).threw

AllInputsZero(proc) ==
    LengthPositive(proc) /\ proc.inputInstances.kind = "array"
        /\ EveryZero(proc.inputInstances.items).value

\* a preference that does not look at the provider's list
ShouldUseExtracted_WheneverFound(proc, extracted) == Len(extracted) > 0

ShouldUseExtracted(proc, extracted) ==
    Len(extracted) > 0 /\ (~LengthPositive(proc) \/ AllInputsZero(proc))

\* an extracted ingredient: its name and its percent, undefined when none is written
Ingredient(name, percent) == [name |-> name, percent |-> percent]
HasPercent(ing) == ing.percent.t = "number"

RECURSIVE KnownPercentTotal(_)
KnownPercentTotal(extracted) ==
    IF Len(extracted) = 0 THEN 0
    ELSE (IF HasPercent(extracted[1]) THEN extracted[1].percent.n ELSE 0)
             + KnownPercentTotal(Tail(extracted))

CountWithoutPercent(extracted) == Cardinality({x \in DOMAIN extracted : ~HasPercent(extracted[x])})
CountWithPercent(extracted) == Cardinality({x \in DOMAIN extracted : HasPercent(extracted[x])})

\* lines 439-448
ExtractedToInputs(extracted, total) ==
    [x \in DOMAIN extracted |->
        Input(extracted[x].name,
              Num(IF HasPercent(extracted[x]) /\ TotalKnown(total)
                  THEN PercentToGrams(total.n, extracted[x].percent.n) ELSE 0),
              NoProcess)]

\* lines 450-461
DistributeResidual(items, extracted, total) ==
    IF TotalKnown(total) /\ CountWithoutPercent(extracted) > 0 /\ KnownPercentTotal(extracted) < 100
    THEN LET availableForDistribution == total.n - SumQuantities(items)
             perIngredient == availableForDistribution \div CountWithoutPercent(extracted)
         IN [x \in DOMAIN items |->
                IF items[x].quantity.n = 0
                THEN [items[x] EXCEPT !.quantity = Num(perIngredient)] ELSE items[x]]
    ELSE items

\* lines 463-473
WaterRemainder(items, extracted, total) ==
    IF /\ TotalKnown(total)
       /\ KnownPercentTotal(extracted) > 0 /\ KnownPercentTotal(extracted) < 100
       /\ CountWithPercent(extracted) > 0
    THEN LET remainder == Max(0, total.n - SumQuantities(items))
         IN IF remainder > 0 THEN AddToWater(items, remainder) ELSE items
    ELSE items

sExtractedFrom ==
    <<"I", "n", "g", "r", "e", "d", "i", "e", "n", "t", "s", " ",
      "e", "x", "t", "r", "a", "c", "t", "e", "d", " ", "f", "r", "o", "m", " ",
      "s", "o", "u", "r", "c", "e", ":", " ">>
\* lines 474-477
ExtractedDescription(extracted) ==
    sExtractedFrom \o Join([x \in DOMAIN extracted |-> extracted[x].name], <<",", " ">>)

\* lines 430-478
UseExtracted(item, extracted, total) ==
    LET proc == IF item.process.present THEN item.process
                ELSE Process(StrLabel(tBlending), Array(<<>>))
        inputs == WaterRemainder(
                      DistributeResidual(ExtractedToInputs(extracted, total), extracted, total),
                      extracted, total)
    IN [item EXCEPT
           !.process = [proc EXCEPT !.inputInstances = Array(inputs)],
           !.description = IF item.description = <<>> THEN ExtractedDescription(extracted)
                           ELSE item.description]

\* what the promise of suggestFood settles to
Pending == [kind |-> "pending", item |-> NullResult]
EmptyResult == [kind |-> "empty", item |-> NullResult]      \* { suggestions: [] }
Rejected == [kind |-> "throw", item |-> NullResult]
Resolved(item) == [kind |-> "item", item |-> item]

\* line 423: the item quantity
SetItemQuantity(item, total) ==
    IF TotalKnown(total) /\ ~Truthy(item.quantity)
    THEN [item EXCEPT !.quantity = Num(total.n)] ELSE item

\* lines 406-509
PostProcess(ai, extracted, total, query, definedTypes) ==
    LET a0 == IF ai.isNull THEN DefaultTemplate(query) ELSE ai
    IN IF AllZeroThrows(a0.process) THEN Rejected
       ELSE
        LET a1 == SetItemQuantity(a0, total)
            a2 == IF ShouldUseExtracted(a1.process, extracted)
                  THEN UseExtracted(a1, extracted, total) ELSE a1
            norm == IF a2.process.present /\ a2.process.inputInstances.kind # "undefined"
                    THEN NormalizeInputQuantitiesToGrams(a2.process.inputInstances, total)
                    ELSE Returned(a2.process.inputInstances.items)
            ii3 == [a2.process.inputInstances EXCEPT !.items = norm.items]
            fill == IF a2.process.present
                    THEN LiquidBackfill(ii3, total, ItemText(a2.type, a2.description, query))
                    ELSE Returned(ii3.items)
            a4 == [a2 EXCEPT !.process.inputInstances.items = fill.items]
            ranked == RankedProcessTypes(definedTypes)
            typed == NormalizeProcess(a4.process, IF Len(ranked) > 0 THEN ranked ELSE definedTypes)
        IN IF norm.threw \/ fill.threw \/ typed.threw THEN Rejected
           ELSE Resolved([a4 EXCEPT !.process = typed.process])

(***************************************************************************)
(* extractIngredientsFromText                                              *)
(* Letters outside ASCII are written as one named character each.          *)
(***************************************************************************)
\* line 117
ExtractKeywords ==
    << <<"i", "n", "g", "r", "e", "d", "i", "e", "n", "t", "s">>,
       <<"c", "o", "m", "p", "o", "s", "i", "t", "i", "o", "n">>,
       <<"o-umlaut", "s", "s", "z", "e", "t", "e", "v", "o-double-acute", "k">>,
       <<"z", "u", "t", "a", "t", "e", "n">>,
       <<"i", "n", "g", "r", "e-acute", "d", "i", "e", "n", "t", "s">>,
       <<"i", "n", "g", "r", "e", "d", "i", "e", "n", "t", "e", "s">>,
       <<"s", "l", "o", "z-caron", "e", "n", "i-acute">>,
       <<"z", "l", "o", "z-caron", "e", "n", "i", "e">> >>

StartsAt(s, i, sub) == i + Len(sub) - 1 <= Len(s) /\ SubSeq(s, i, i + Len(sub) - 1) = sub

\* String.prototype.lastIndexOf, 1-based; 0 when there is none
LastIndexOf(s, sub) ==
    LET at == {i \in DOMAIN s : StartsAt(s, i, sub)}
    IN IF at = {} THEN 0 ELSE CHOOSE i \in at : \A j \in at : i >= j

\* replace(/\s+/g, ' ')
RECURSIVE SquashWhitespace(_)
SquashWhitespace(s) ==
    IF Len(s) = 0 THEN <<>>
    ELSE IF IsSpace(s[1])
    THEN IF Len(s) > 1 /\ IsSpace(s[2]) THEN SquashWhitespace(Tail(s))
         ELSE <<" ">> \o SquashWhitespace(Tail(s))
    ELSE <<s[1]>> \o SquashWhitespace(Tail(s))

\* the end of the run of the letter s, in either case, that starts after position k
RECURSIVE SRunEnd(_, _)
SRunEnd(s, k) == IF k + 1 <= Len(s) /\ s[k + 1] \in {"s", "S"} THEN SRunEnd(s, k + 1) ELSE k

\* the end of the run of characters other than the full stop that starts after position k
RECURSIVE NonDotRunEnd(_, _)
NonDotRunEnd(s, k) == IF k + 1 <= Len(s) /\ s[k + 1] # "." THEN NonDotRunEnd(s, k + 1) ELSE k

\* new RegExp(`${matchKeyword}\s*[:\-]\s*([^\.]+)`, 'i') anchored at position i.
\* In the template literal \s is the letter s, so the expression is
\* keyword s* [:-] s* ([^.]+) : after the keyword and after the colon or hyphen
\* it skips letters s, not whitespace; a skipped s is given back when the
\* capture would otherwise be empty
NoCapture == [ok |-> FALSE, text |-> <<>>]
KeywordMatchAt(line, i, keyword) ==
    IF ~StartsAt(ToLowerCase(line), i, keyword) THEN NoCapture
    ELSE
        LET a == SRunEnd(line, i + Len(keyword) - 1)
        IN IF ~(a + 1 <= Len(line) /\ line[a + 1] \in {":", "-"}) THEN NoCapture
           ELSE
               LET b == SRunEnd(line, a + 1)
                   from == IF b + 1 <= Len(line) /\ line[b + 1] # "." THEN b + 1
                           ELSE IF b > a + 1 THEN b
                           ELSE 0
               IN IF from = 0 THEN NoCapture
                  ELSE [ok |-> TRUE, text |-> SubSeq(line, from, NonDotRunEnd(line, from))]

\* line.match(pattern): the leftmost match
KeywordMatch(line, keyword) ==
    LET at == {i \in DOMAIN line : KeywordMatchAt(line, i, keyword).ok}
    IN IF at = {} THEN NoCapture
       ELSE KeywordMatchAt(line, CHOOSE i \in at : \A j \in at : i <= j, keyword)

\* replace(/\<[^>]*>/g, ' ')
RECURSIVE StripTags(_)
StripTags(s) ==
    IF Len(s) = 0 THEN <<>>
    ELSE IF s[1] = "<" /\ \E j \in 2..Len(s) : s[j] = ">"
    THEN LET close == CHOOSE j \in 2..Len(s) : s[j] = ">" /\ \A k \in 2..(j - 1) : s[k] # ">"
         IN <<" ">> \o StripTags(SubSeq(s, close + 1, Len(s)))
    ELSE <<s[1]>> \o StripTags(Tail(s))

\* split(/,|;|\(|\)/)
ListSeparators == {",", ";", "(", ")"}
RECURSIVE SplitFrom(_, _, _)
SplitFrom(s, i, current) ==
    IF i > Len(s) THEN <<current>>
    ELSE IF s[i] \in ListSeparators THEN <<current>> \o SplitFrom(s, i + 1, <<>>)
    ELSE SplitFrom(s, i + 1, Append(current, s[i]))
SplitList(s) == SplitFrom(s, 1, <<>>)

\* replace(/^[-–•]+\s*/g, '')
BulletChars == {"-", "en-dash", "bullet"}
RECURSIVE BulletRunEnd(_, _)
BulletRunEnd(s, k) == IF k + 1 <= Len(s) /\ s[k + 1] \in BulletChars THEN BulletRunEnd(s, k + 1) ELSE k
StripBullets(s) ==
    LET b == BulletRunEnd(s, 0)
    IN IF b = 0 THEN s ELSE SubSeq(s, SpaceRunEnd(s, b) + 1, Len(s))

\* /(\d+(?:[\.,]\d+)?)\s*%/ anchored at position i: the captured number and the
\* position of the percent sign
NoPercentMatch == [ok |-> FALSE, int |-> <<>>, frac |-> <<>>, last |-> 0]
PercentMatchAt(s, i) ==
    IF ~(i <= Len(s) /\ IsDigit(s[i])) THEN NoPercentMatch
    ELSE
        LET j == DigitRunEnd(s, i)
            hasFrac == j + 2 <= Len(s) /\ s[j + 1] \in {".", ","} /\ IsDigit(s[j + 2])
            k == IF hasFrac THEN DigitRunEnd(s, j + 2) ELSE j
            m == SpaceRunEnd(s, k)
            m0 == SpaceRunEnd(s, j)
        IN IF m + 1 <= Len(s) /\ s[m + 1] = "%"
           THEN [ok |-> TRUE, int |-> SubSeq(s, i, j),
                 frac |-> IF hasFrac THEN SubSeq(s, j + 2, k) ELSE <<>>, last |-> m + 1]
           ELSE IF m0 + 1 <= Len(s) /\ s[m0 + 1] = "%"
           THEN [ok |-> TRUE, int |-> SubSeq(s, i, j), frac |-> <<>>, last |-> m0 + 1]
           ELSE NoPercentMatch

\* /<\s*(\d+(?:[\.,]\d+)?)\s*%/ anchored at position i
LessThanMatchAt(s, i) ==
    IF i <= Len(s) /\ s[i] = "<" THEN PercentMatchAt(s, SpaceRunEnd(s, i) + 1)
    ELSE NoPercentMatch

\* parseFloat(m[1].replace(',', '.')): a whole number, or the whole part with
\* the decimals that are left once the trailing zeros are dropped
RECURSIVE DropTrailingZeros(_)
DropTrailingZeros(ds) ==
    IF Len(ds) > 0 /\ ds[Len(ds)] = "0" THEN DropTrailingZeros(SubSeq(ds, 1, Len(ds) - 1)) ELSE ds
Decimal(n, frac) == [t |-> "number", n |-> n, frac |-> frac]
ParseFloat(m) ==
    IF DropTrailingZeros(m.frac) = <<>> THEN Num(DigitsValue(m.int))
    ELSE Decimal(DigitsValue(m.int), DropTrailingZeros(m.frac))

\* parsePercent, lines 134-140
ParsePercent(s) ==
    LET lt == {i \in DOMAIN s : LessThanMatchAt(s, i).ok}
        plain == {i \in DOMAIN s : PercentMatchAt(s, i).ok}
    IN IF lt # {} THEN ParseFloat(LessThanMatchAt(s, CHOOSE i \in lt : \A j \in lt : i <= j))
       ELSE IF plain # {} THEN ParseFloat(PercentMatchAt(s, CHOOSE i \in plain : \A j \in plain : i <= j))
       ELSE Undefined

\* replace(/\d+(?:[\.,]\d+)?\s*%/g, '')
RECURSIVE RemovePercents(_)
RemovePercents(s) ==
    IF Len(s) = 0 THEN <<>>
    ELSE IF PercentMatchAt(s, 1).ok
    THEN RemovePercents(SubSeq(s, PercentMatchAt(s, 1).last + 1, Len(s)))
    ELSE <<s[1]>> \o RemovePercents(Tail(s))

\* lines 147-151 on one piece of the list
EntryOf(piece) == Ingredient(Trim(RemovePercents(piece)), ParsePercent(piece))

\* lines 142-152
RECURSIVE EntriesOf(_)
EntriesOf(pieces) ==
    IF Len(pieces) = 0 THEN <<>>
    ELSE LET trimmed == Trim(pieces[1])
             piece == Trim(StripBullets(trimmed))
             rest == EntriesOf(Tail(pieces))
         IN IF trimmed = <<>> THEN rest
            ELSE IF Len(EntryOf(piece).name) > 1 THEN <<EntryOf(piece)>> \o rest
            ELSE rest

ExtractWindow == 2000

ExtractIngredientsFromText(text) ==
    LET lower == ToLowerCase(text)
        found == {k \in DOMAIN ExtractKeywords : Includes(lower, ExtractKeywords[k])}
    IN IF text = <<>> \/ found = {} THEN <<>>
       ELSE
           LET matchKeyword == ExtractKeywords[CHOOSE k \in found : \A j \in found : k <= j]
               idx == LastIndexOf(lower, matchKeyword)
               last == IF idx + ExtractWindow - 1 < Len(text) THEN idx + ExtractWindow - 1
                       ELSE Len(text)
               line == SquashWhitespace(SubSeq(text, idx, last))
               match == KeywordMatch(line, matchKeyword)
               raw == IF match.ok THEN match.text
                      ELSE SubSeq(line, Len(matchKeyword) + 1, Len(line))
               cleaned == Trim(SquashWhitespace(StripTags(raw)))
           IN EntriesOf(SplitList(cleaned))

(***************************************************************************)
(* suggestFood as a state machine: one action per stretch between awaits   *)
(***************************************************************************)
sHttp == <<"h", "t", "t", "p">>
StartsWith(s, prefix) == Len(s) >= Len(prefix) /\ SubSeq(s, 1, Len(prefix)) = prefix

IsUrlRef(ref) == ref.registry = "url" /\ StartsWith(ref.id, sHttp)

sContextFrom == <<"\n", "-", "-", "-", " ", "C", "o", "n", "t", "e", "x", "t", " ",
                  "f", "r", "o", "m", " ">>
sJsonLdText == <<" ", "-", "-", "-", "\n", "J", "S", "O", "N", "-", "L", "D", ":", " ", "\n",
                 "T", "e", "x", "t", ":", " ">>
sRule == <<"\n", "-", "-", "-", "-", "-", "-", "-", "-", "-", "-", "-", "-", "-", "-", "-", "-", "\n">>
\* line 245, for a page without embedded structured data
ContextBlock(id, text) == sContextFrom \o id \o sJsonLdText \o text \o sRule

\* params.query || params.title || params.type || ''
QueryOf(p) == IF p.query # <<>> THEN p.query ELSE IF p.title # <<>> THEN p.title ELSE p.type

\* the providers in the order of the if / else-if chain of lines 346-404
ProviderOrder == <<"groq", "openRouter", "gemini">>

\* a key for one of the providers of the if / else-if chain of lines 346-404
HasProvider(k) == k \cap {"groq", "openRouter", "gemini"} # {}

\* the branches of the chain that run: the first one whose key is set, and,
\* the others being else-branches, no other
RECURSIVE BranchesFrom(_, _)
BranchesFrom(k, i) ==
    IF i > Len(ProviderOrder) THEN <<>>
    ELSE IF ProviderOrder[i] \in k THEN <<ProviderOrder[i]>>
    ELSE BranchesFrom(k, i + 1)
\* the chain written with independent if statements: every branch whose key is set
BranchesTaken_IndependentIfs(k) == SelectSeq(ProviderOrder, LAMBDA name : name \in k)

BranchesTaken(k) == BranchesFrom(k, 1)

\* --- POST /suggest/food, index.ts 958-979 ---
sBearer == <<"B", "e", "a", "r", "e", "r", " ">>
sGemini == <<"g", "e", "m", "i", "n", "i">>
sOpenrouter == <<"o", "p", "e", "n", "r", "o", "u", "t", "e", "r">>
NoHint == [authorization |-> <<>>, provider |-> NoLabel]

\* authHeader.split(' ')[1]
RECURSIVE WordEnd(_, _)
WordEnd(s, i) == IF i > Len(s) \/ s[i] = " " THEN i - 1 ELSE WordEnd(s, i + 1)
SecondWord(s) ==
    LET firstEnd == WordEnd(s, 1)
    IN IF firstEnd + 2 > Len(s) + 1 THEN <<>>
       ELSE SubSeq(s, firstEnd + 2, WordEnd(s, firstEnd + 2))

\* lines 967-970: the provider the bearer key is filed under
HintedProvider(h) ==
    LET provider == IF h.provider.t = "string" THEN ToLowerCase(h.provider.s)
                    ELSE <<"g", "r", "o", "q">>
    IN IF Includes(provider, sGemini) THEN "gemini"
       ELSE IF Includes(provider, sOpenrouter) THEN "openRouter"
       ELSE "groq"

\* lines 964-971: the transient keys; set holds the providers given a non-empty
\* key, blank the providers given the empty string
RouteKeys(h) ==
    IF h.authorization # <<>> /\ StartsWith(h.authorization, sBearer)
    THEN IF SecondWord(h.authorization) # <<>>
         THEN [set |-> {HintedProvider(h)}, blank |-> {}]
         ELSE [set |-> {}, blank |-> {HintedProvider(h)}]
    ELSE [set |-> {}, blank |-> {}]

\* line 204, { ...configKeys, ...transientKeys }: the providers with a usable key
MergeKeys(config, transient) == (config \ transient.blank) \cup transient.set

\* --- the catalog lookups, lines 264-300 ---
OffSliceLimit == 10
FdcSliceLimit == 5
NoResponse == [kind |-> "none", list |-> <<>>]
Failure(kind) == [kind |-> kind, list |-> <<>>]
Ok(list) == [kind |-> "ok", list |-> list]

\* lines 270-275 and 282-287: only an OK response with a JSON body assigns the
\* list; an exception, an abort after 12 s and a non-OK status leave it alone
ProductsAfter(response, current) == IF response.kind = "ok" THEN response.list ELSE current

Take(list, n) == SubSeq(list, 1, IF Len(list) < n THEN Len(list) ELSE n)
Candidate(source, id) == [source |-> source, id |-> id]
\* a candidate list that is built only when both sources answered with products
Candidates_BothOrNone(offList, fdcList) ==
    IF offList = <<>> \/ fdcList = <<>> THEN <<>>
    ELSE Take([i \in DOMAIN offList |-> Candidate("OpenFoodFacts", offList[i])], OffSliceLimit)
         \o Take([i \in DOMAIN fdcList |-> Candidate("USDA FDC", fdcList[i])], FdcSliceLimit)

\* lines 292-300
Candidates(offList, fdcList) ==
    Take([i \in DOMAIN offList |-> Candidate("OpenFoodFacts", offList[i])], OffSliceLimit)
    \o Take([i \in DOMAIN fdcList |-> Candidate("USDA FDC", fdcList[i])], FdcSliceLimit)

\* a query check that lets a request with reference locators through
HasQuerySignal_OrIds(p) == QueryOf(p) # <<>> \/ Len(p.ids) > 0

\* line 252
HasQuerySignal(p) == QueryOf(p) # <<>>

InitFood(ParamsSet, KeySets, Hints, TypesFiles) ==
    /\ pc = "scrape"
    /\ params \in ParamsSet
    /\ configKeys \in KeySets
    /\ hint \in Hints
    /\ keys = MergeKeys(configKeys, RouteKeys(hint))
    /\ typesFile \in TypesFiles
    /\ cachedProcessTypes = <<>>
    /\ refIdx = 1
    /\ contextText = <<>>
    /\ extractedIngredients = <<>>
    /\ totalGrams = NullTotal
    /\ aiResult = NullResult
    /\ ret = Pending
    /\ offCall = "idle" /\ fdcCall = "idle"
    /\ offResponse = NoResponse /\ fdcResponse = NoResponse
    /\ products = <<>> /\ fdcProducts = <<>> /\ candidates = <<>>
    /\ branches = <<>> /\ inFlight = {} /\ providerLog = <<>>

\* lines 208-247, a reference that is no web page: nothing is fetched
SkipRef ==
    /\ pc = "scrape" /\ refIdx <= Len(params.ids)
    /\ ~IsUrlRef(params.ids[refIdx])
    /\ refIdx' = refIdx + 1
    /\ UNCHANGED <<helperVars, netVars, pc, params, keys, contextText, extractedIngredients,
                   totalGrams, aiResult, ret, typesFile, cachedProcessTypes>>

\* lines 210-245: the page is fetched and its text appended to the context;
\* page.ingredients is what extractIngredientsFromText finds in that text
ScrapeRef(Pages) ==
    /\ pc = "scrape" /\ refIdx <= Len(params.ids)
    /\ IsUrlRef(params.ids[refIdx])
    /\ \E page \in Pages :
        /\ contextText' = contextText \o ContextBlock(params.ids[refIdx].id, page.text)
        /\ extractedIngredients' = page.ingredients
    /\ refIdx' = refIdx + 1
    /\ UNCHANGED <<helperVars, netVars, pc, params, keys, totalGrams, aiResult, ret, typesFile,
                   cachedProcessTypes>>

\* line 246: the fetch or the parse fails, the locator contributes nothing
ScrapeFails ==
    /\ pc = "scrape" /\ refIdx <= Len(params.ids)
    /\ IsUrlRef(params.ids[refIdx])
    /\ refIdx' = refIdx + 1
    /\ UNCHANGED <<helperVars, netVars, pc, params, keys, contextText, extractedIngredients,
                   totalGrams, aiResult, ret, typesFile, cachedProcessTypes>>

\* lines 251-252: no query signal
ReturnEmpty ==
    /\ pc = "scrape" /\ refIdx > Len(params.ids)
    /\ ~HasQuerySignal(params)
    /\ pc' = "done"
    /\ ret' = EmptyResult
    /\ UNCHANGED <<helperVars, netVars, params, keys, contextText, extractedIngredients,
                   totalGrams, aiResult, refIdx, typesFile, cachedProcessTypes>>

\* lines 264-290: the two catalog lookups are started, each on its own promise
StartCatalog ==
    /\ pc = "scrape" /\ refIdx > Len(params.ids)
    /\ HasQuerySignal(params)
    /\ pc' = "catalog"
    /\ offCall' = "pending" /\ fdcCall' = "pending"
    /\ UNCHANGED <<helperVars, keyVars, providerVars, offResponse, fdcResponse, products,
                   fdcProducts, candidates, params, keys, contextText, extractedIngredients,
                   totalGrams, aiResult, ret, refIdx, typesFile, cachedProcessTypes>>

\* lines 254-262: while the fetch is awaited ("pending") the 12 s timer is
\* armed, and the lookup ends by a network error, by the abort of the timer or
\* by the headers of a non-OK response; once the headers of an OK response
\* have arrived the timer is cleared (line 259) and the body is read ("body"),
\* which ends by the parsed list, by a body that is no JSON or by an error
EndsIn(phase) ==
    IF phase = "pending" THEN {"error", "timeout", "notOk"}
    ELSE IF phase = "body" THEN {"ok", "badJson", "error"}
    ELSE {}

\* lines 258-260 and 270-271: the headers of an OK response arrive
OffHeaders ==
    /\ pc = "catalog" /\ offCall = "pending"
    /\ offCall' = "body"
    /\ UNCHANGED <<helperVars, keyVars, providerVars, fdcCall, offResponse, fdcResponse,
                   products, fdcProducts, candidates, pc, params, keys, contextText,
                   extractedIngredients, totalGrams, aiResult, ret, refIdx, typesFile,
                   cachedProcessTypes>>

\* lines 258-260 and 282-283
FdcHeaders ==
    /\ pc = "catalog" /\ fdcCall = "pending"
    /\ fdcCall' = "body"
    /\ UNCHANGED <<helperVars, keyVars, providerVars, offCall, offResponse, fdcResponse,
                   products, fdcProducts, candidates, pc, params, keys, contextText,
                   extractedIngredients, totalGrams, aiResult, ret, refIdx, typesFile,
                   cachedProcessTypes>>

\* lines 267-276: the Open Food Facts lookup settles
OffSettles(Responses) ==
    /\ pc = "catalog"
    /\ \E r \in Responses :
        /\ r.kind \in EndsIn(offCall)
        /\ offResponse' = r
        /\ products' = ProductsAfter(r, products)
    /\ offCall' = "settled"
    /\ UNCHANGED <<helperVars, keyVars, providerVars, fdcCall, fdcResponse, fdcProducts,
                   candidates, pc, params, keys, contextText, extractedIngredients, totalGrams,
                   aiResult, ret, refIdx, typesFile, cachedProcessTypes>>

\* lines 278-288: the FoodData Central lookup settles
FdcSettles(Responses) ==
    /\ pc = "catalog"
    /\ \E r \in Responses :
        /\ r.kind \in EndsIn(fdcCall)
        /\ fdcResponse' = r
        /\ fdcProducts' = ProductsAfter(r, fdcProducts)
    /\ fdcCall' = "settled"
    /\ UNCHANGED <<helperVars, keyVars, providerVars, offCall, offResponse, products,
                   candidates, pc, params, keys, contextText, extractedIngredients, totalGrams,
                   aiResult, ret, refIdx, typesFile, cachedProcessTypes>>

\* lines 290-345: both lookups have settled; the candidates are built, the valid
\* types are read and the total is inferred
CatalogSettled ==
    /\ pc = "catalog" /\ offCall = "settled" /\ fdcCall = "settled"
    /\ candidates' = Candidates(products, fdcProducts)
    /\ cachedProcessTypes' = GetDefinedProcessTypes(cachedProcessTypes, typesFile)
    /\ totalGrams' = InferTotalGrams(QueryOf(params), contextText, params.ids, params.quantity)
    /\ branches' = BranchesTaken(keys)
    /\ pc' = "provider"
    /\ UNCHANGED <<helperVars, keyVars, offCall, fdcCall, offResponse, fdcResponse, products,
                   fdcProducts, inFlight, providerLog, params, keys, contextText,
                   extractedIngredients, aiResult, ret, refIdx, typesFile>>

\* lines 346-404 with no key configured: no provider is called
NoProviderKey ==
    /\ pc = "provider" /\ providerLog = <<>> /\ branches = <<>>
    /\ aiResult' = NullResult
    /\ pc' = "post"
    /\ UNCHANGED <<helperVars, netVars, params, keys, contextText, extractedIngredients,
                   totalGrams, ret, refIdx, typesFile, cachedProcessTypes>>

ProviderCall(provider, outcome) == [provider |-> provider, outcome |-> outcome]
SettleLast(log, outcome) == [log EXCEPT ![Len(log)].outcome = outcome]

\* lines 348, 366, 389: the request of the branch is sent and awaited
CallProvider ==
    /\ pc = "provider" /\ branches # <<>> /\ inFlight = {}
    /\ inFlight' = {Head(branches)}
    /\ providerLog' = Append(providerLog, ProviderCall(Head(branches), "pending"))
    /\ UNCHANGED <<helperVars, keyVars, catalogVars, branches, pc, params, keys, contextText,
                   extractedIngredients, totalGrams, aiResult, ret, refIdx, typesFile,
                   cachedProcessTypes>>

\* the call of the provider fails, answers not-OK or without a JSON object
ProviderFails ==
    /\ pc = "provider" /\ inFlight # {}
    /\ inFlight' = {}
    /\ providerLog' = SettleLast(providerLog, "failed")
    /\ branches' = Tail(branches)
    /\ pc' = IF Tail(branches) = <<>> THEN "post" ELSE "provider"
    /\ UNCHANGED <<helperVars, keyVars, catalogVars, params, keys, contextText,
                   extractedIngredients, totalGrams, aiResult, ret, refIdx, typesFile,
                   cachedProcessTypes>>

\* the provider answers with text holding a JSON object
ProviderReturns(Answers) ==
    /\ pc = "provider" /\ inFlight # {}
    /\ aiResult' \in Answers
    /\ inFlight' = {}
    /\ providerLog' = SettleLast(providerLog, "parsed")
    /\ branches' = Tail(branches)
    /\ pc' = IF Tail(branches) = <<>> THEN "post" ELSE "provider"
    /\ UNCHANGED <<helperVars, keyVars, catalogVars, params, keys, contextText,
                   extractedIngredients, totalGrams, ret, refIdx, typesFile, cachedProcessTypes>>

\* lines 406-509
Finish ==
    /\ pc = "post"
    /\ ret' = PostProcess(aiResult, extractedIngredients, totalGrams, QueryOf(params),
                          cachedProcessTypes)
    /\ pc' = "done"
    /\ UNCHANGED <<helperVars, netVars, params, keys, contextText, extractedIngredients,
                   totalGrams, aiResult, refIdx, typesFile, cachedProcessTypes>>

NextFood(Pages, Answers, Responses) ==
    \/ SkipRef
    \/ ScrapeRef(Pages)
    \/ ScrapeFails
    \/ ReturnEmpty
    \/ StartCatalog
    \/ OffHeaders
    \/ FdcHeaders
    \/ OffSettles(Responses)
    \/ FdcSettles(Responses)
    \/ CatalogSettled
    \/ NoProviderKey
    \/ CallProvider
    \/ ProviderFails
    \/ ProviderReturns(Answers)
    \/ Finish

(***************************************************************************)
(* Direct calls of inferTotalGrams                                         *)
(***************************************************************************)
InferPending == [done |-> FALSE, total |-> NullTotal]

CallInferTotalGrams ==
    /\ ~inferResult.done
    /\ inferResult' = [done |-> TRUE,
                       total |-> InferTotalGrams(inferArgs.query, inferArgs.contextText,
                                                 inferArgs.ids, inferArgs.explicitQuantity)]
    /\ UNCHANGED <<unitVars, inferArgs, foodVars, recVars, pickVars, extractVars, toolVars>>

(***************************************************************************)
(* Direct calls of pickClosestProcessType                                  *)
(***************************************************************************)
\* what a call comes to: the type returned, or the exception
PickOutcome(rawType, validTypes) ==
    IF PickThrows(rawType, validTypes) THEN [threw |-> TRUE, type |-> <<>>]
    ELSE [threw |-> FALSE, type |-> PickClosestProcessType(rawType, validTypes)]
NotPicked == [threw |-> FALSE, type |-> <<>>]

\* pickClosestProcessType(rawType, validTypes)
CallPick ==
    /\ pickResult.phase = "none"
    /\ pickResult' = [pickResult EXCEPT !.phase = "once",
                                         !.first = PickOutcome(pickArgs.rawType, pickArgs.validTypes)]
    /\ UNCHANGED <<unitVars, pickArgs, foodVars, inferVars, recVars, extractVars, toolVars>>

\* pickClosestProcessType(pickClosestProcessType(rawType, validTypes), validTypes):
\* the outer call runs on the type the inner one returned, and an exception
\* of the inner call is the outcome of the whole expression
CallPickAgain ==
    /\ pickResult.phase = "once"
    /\ pickResult' = [pickResult EXCEPT
            !.phase = "twice",
            !.second = IF pickResult.first.threw THEN pickResult.first
                       ELSE PickOutcome(StrLabel(pickResult.first.type), pickArgs.validTypes)]
    /\ UNCHANGED <<unitVars, pickArgs, foodVars, inferVars, recVars, extractVars, toolVars>>

(***************************************************************************)
(* Direct calls of extractIngredientsFromText                              *)
(***************************************************************************)
NotExtracted == [done |-> FALSE, entries |-> <<>>]

CallExtractIngredients ==
    /\ ~extractResult.done
    /\ extractResult' = [done |-> TRUE, entries |-> ExtractIngredientsFromText(extractText.text)]
    /\ UNCHANGED <<unitVars, extractText, foodVars, inferVars, recVars, pickVars, toolVars>>

(***************************************************************************)
(* Direct calls of the reconciliation of one list of children              *)
(***************************************************************************)
\* normalizeInputQuantitiesToGrams(inputInstances, totalGrams)
CallNormalize ==
    /\ recPhase = "raw"
    /\ ~NormalizeInputQuantitiesToGrams(Array(recInputs), recTotal).threw
    /\ recInputs' = NormalizeInputQuantitiesToGrams(Array(recInputs), recTotal).items
    /\ recPhase' = "normalized"
    /\ UNCHANGED <<unitVars, recTotal, recText, recOrig, recPass1, foodVars, inferVars, pickVars, extractVars, toolVars>>

\* the backfill of lines 484-504, which completes the first pass
CallBackfill ==
    /\ recPhase = "normalized"
    /\ recInputs' = LiquidBackfill(Array(recInputs), recTotal, recText).items
    /\ recPass1' = recInputs'
    /\ recPhase' = "pass1"
    /\ UNCHANGED <<unitVars, recTotal, recText, recOrig, foodVars, inferVars, pickVars, extractVars, toolVars>>

\* lines 480-504 once more, on the tree the first pass produced
CallPassAgain ==
    /\ recPhase = "pass1"
    /\ recInputs' = ReconcilePass(recInputs, recTotal, recText)
    /\ recPhase' = "pass2"
    /\ UNCHANGED <<unitVars, recTotal, recText, recOrig, recPass1, foodVars, inferVars, pickVars, extractVars, toolVars>>

(***************************************************************************)
(* Inputs of the model                                                     *)
(***************************************************************************)
SeqsUpTo(S, n) == UNION {[1..k -> S] : k \in 0..n}

sSoup == <<"s", "o", "u", "p">>
sSalt2g == <<"s", "a", "l", "t", " ", "2", "g">>
sDough == <<"D", "o", "u", "g", "h">>
sMixing == <<"M", "i", "x", "i", "n", "g">>
sGrinding == <<"G", "r", "i", "n", "d", "i", "n", "g">>
sDryMix == <<"d", "r", "y", " ", "m", "i", "x">>

UrlRef == [id |-> <<"h", "t", "t", "p", ":", "/", "/", "x">>, registry |-> "url"]
EanRef == [id |-> <<"5", "9", "9">>, registry |-> "ean"]

TypesFiles == {RegistryFileTypes, <<>>}
KeySets == {{}, {"groq"}}

FoodIdle ==
    /\ pc = "idle" /\ params = <<>> /\ keys = {} /\ typesFile = <<>>
    /\ cachedProcessTypes = <<>> /\ refIdx = 1 /\ contextText = <<>>
    /\ extractedIngredients = <<>> /\ totalGrams = NullTotal
    /\ aiResult = NullResult /\ ret = Pending
    /\ configKeys = {} /\ hint = NoHint
    /\ offCall = "idle" /\ fdcCall = "idle"
    /\ offResponse = NoResponse /\ fdcResponse = NoResponse
    /\ products = <<>> /\ fdcProducts = <<>> /\ candidates = <<>>
    /\ branches = <<>> /\ inFlight = {} /\ providerLog = <<>>
InferIdle == inferArgs = <<>> /\ inferResult = InferPending
RecIdle ==
    /\ recInputs = <<>> /\ recTotal = NullTotal /\ recText = <<>>
    /\ recPhase = "idle" /\ recOrig = <<>> /\ recPass1 = <<>>

PickIdle == pickArgs = <<>> /\ pickResult = <<>>
ExtractIdle == extractText = <<>> /\ extractResult = <<>>
ToolsIdle == typesContent = <<>> /\ defaultAuthToken = "none" /\ lastCall = <<>>
DistIdle == distArgs = <<>> /\ distResult = <<>>
CacheIdle ==
    /\ registry = <<>> /\ sharedCache = <<>> /\ registryReads = 0
    /\ reqState = <<>> /\ validTypesOf = <<>> /\ seenAtEnd = <<>>
UnitsIdle == DistIdle /\ CacheIdle

\* a catalog source that is down
CatalogDown == {Failure("error")}

\* --- requests whose provider answers take every shape ---
ParamsFood ==
    [query : {<<>>, sSoup, sSalt2g}, title : {<<>>}, type : {<<>>},
     quantity : {Undefined} \cup {Num(n) : n \in 0..MaxTotal},
     ids : {<<EanRef>>, <<UrlRef>>}]

PagesFood == {[text |-> <<>>, ingredients |-> <<Ingredient(sSalt, Undefined)>>]}

DeepProcess ==
    Process(StrLabel(sGrinding),
            Array(<<Input(sSalt, Num(0), Process(StrLabel(sDryMix), Array(<<>>)))>>))

AnswerInputs ==
    {NullInput,
     Input(sSalt, Num(0), NoProcess), Input(sSalt, Num(30), NoProcess),
     Input(sWater, Num(30), NoProcess),
     Input(sDough, Num(200), DeepProcess),
     Input(sDough, Undefined, Process(StrLabel(tCooking), NoInputs))}

AnswerLabels == {StrLabel(tBlending), StrLabel(sMixing), StrLabel(tSale), NoLabel, NumberLabel}

AnswerProcesses ==
    {NoProcess} \cup
    {Process(l, ii) : l \in AnswerLabels,
                      ii \in {NoInputs, ObjectInputs, StringInputs}
                             \cup {Array(items) : items \in SeqsUpTo(AnswerInputs, MaxInputs)}}

AnswersFood ==
    {Item(<<>>, <<>>, q, proc) : q \in {Undefined, Num(7)}, proc \in AnswerProcesses}

InitFoodAnswers ==
    /\ InitFood(ParamsFood, KeySets, {NoHint}, TypesFiles)
    /\ InferIdle /\ RecIdle /\ PickIdle /\ ExtractIdle /\ ToolsIdle /\ UnitsIdle
NextFoodAnswers == NextFood(PagesFood, AnswersFood, CatalogDown)
SpecFood == InitFoodAnswers /\ [][NextFoodAnswers]_vars

\* --- requests whose page yields every short ingredient list ---
sSoup1l == <<"s", "o", "u", "p", " ", "1", "l">>

ParamsExtracted ==
    [query : {<<>>, sSoup1l, sSalt}, title : {<<>>}, type : {<<>>},
     quantity : {Undefined} \cup {Num(n) : n \in 1..MaxTotal},
     ids : {<<EanRef>>, <<UrlRef>>}]

ExtractedEntries ==
    {Ingredient(sSalt, Undefined), Ingredient(sSalt, Num(25)), Ingredient(sSalt, Num(50)),
     Ingredient(sWater, Undefined), Ingredient(sWater, Num(25))}

PagesExtracted ==
    {[text |-> <<>>, ingredients |-> l] : l \in SeqsUpTo(ExtractedEntries, MaxIngredients)}

AnswersExtracted ==
    {Item(<<>>, <<>>, Undefined, NoProcess),
     Item(<<>>, <<>>, Num(7), Process(StrLabel(tBlending), Array(<<>>))),
     Item(<<>>, <<>>, Num(0),
          Process(StrLabel(tBlending), Array(<<Input(sSalt, Num(0), NoProcess)>>)))}

InitFoodExtracted ==
    /\ InitFood(ParamsExtracted, KeySets, {NoHint}, {RegistryFileTypes})
    /\ InferIdle /\ RecIdle /\ PickIdle /\ ExtractIdle /\ ToolsIdle /\ UnitsIdle
NextFoodExtracted == NextFood(PagesExtracted, AnswersExtracted, CatalogDown)
SpecFoodExtracted == InitFoodExtracted /\ [][NextFoodExtracted]_vars

\* --- inferTotalGrams on every short text over a small alphabet ---
InferAlphabet == {"1", "5", "l", "g", "k", "m", "x", " "}
sOneLiters == <<"1", " ", "l", "i", "t", "e", "r", "s">>
sOneAndHalfKg == <<"1", ",", "5", " ", "k", "g">>

InferArgsSet ==
    [query : StringsUpTo(InferAlphabet, MaxTextLen) \cup {sOneLiters, sOneAndHalfKg},
     contextText : {<<>>, <<"2", " ", "k", "g">>},
     ids : {<<>>, <<EanRef>>},
     explicitQuantity : {Undefined, Num(0), Num(3)}]

InitInfer ==
    /\ FoodIdle /\ RecIdle /\ PickIdle /\ ExtractIdle /\ ToolsIdle /\ UnitsIdle
    /\ inferArgs \in InferArgsSet /\ inferResult = InferPending
NextInfer == CallInferTotalGrams
SpecInfer == InitInfer /\ [][NextInfer]_vars

\* --- the reconciler on every short list of children ---
ChildSet ==
    {Input(name, Num(q), NoProcess) : name \in {sSalt, sWater}, q \in {0, 50, 60, 101}}

InitReconcile ==
    /\ FoodIdle /\ InferIdle /\ PickIdle /\ ExtractIdle /\ ToolsIdle /\ UnitsIdle
    /\ recOrig \in SeqsUpTo(ChildSet, MaxChildren)
    /\ recInputs = recOrig
    /\ recTotal \in {NullTotal, Grams(1000)} \cup {Grams(n) : n \in 1..MaxTotal}
    /\ recText \in {sSoup, sSalt}
    /\ recPhase = "raw"
    /\ recPass1 = <<>>
NextReconcile == CallNormalize \/ CallBackfill \/ CallPassAgain
SpecReconcile == InitReconcile /\ [][NextReconcile]_vars

\* --- the tools of the type server (mcp-server/src/index.ts) ---
\* A token is absent (undefined), the empty string, a string that is no JWT,
\* or a JWT: the key that signed it, whether its exp has passed, and the
\* role and userId of its payload ("none": the payload has no such field).
AbsentToken == [kind |-> "absent", key |-> "none", expired |-> FALSE, role |-> "none", userId |-> "none"]
EmptyToken == [kind |-> "empty", key |-> "none", expired |-> FALSE, role |-> "none", userId |-> "none"]
GarbageToken == [kind |-> "garbage", key |-> "none", expired |-> FALSE, role |-> "none", userId |-> "none"]
Jwt(key, expired, role, userId) ==
    [kind |-> "jwt", key |-> key, expired |-> expired, role |-> role, userId |-> userId]
Anonymous == [userId |-> "none", role |-> "anonymous"]

\* index.ts 558-573; jwt.verify raises on a string that is no JWT, on a
\* signature made with another key than JWT_SECRET and on a passed exp
TokenTruthy(token) == token.kind \in {"garbage", "jwt"}
JwtVerifies(token) == token.kind = "jwt" /\ token.key = "JWT_SECRET" /\ ~token.expired
VerifyAuth(token, default) ==
    LET candidate == IF TokenTruthy(token) THEN token ELSE default
    IN IF ~TokenTruthy(candidate) THEN Anonymous
       ELSE IF JwtVerifies(candidate)
            THEN [userId |-> candidate.userId,
                  role |-> IF candidate.role = "none" THEN "user" ELSE candidate.role]
            ELSE Anonymous

\* The types file: whether it exists and the definitions in it, in order.
TypesFile(exists, text) == [exists |-> exists, text |-> text]
\* index.ts 576-581
ReadTypes(file) == [threw |-> ~file.exists, content |-> file.text]

\* a writer that does not look at the role
WriteTypes_NoRoleCheck(file, content, auth) == [threw |-> FALSE, file |-> TypesFile(TRUE, content)]

\* index.ts 584-589
WriteTypes(file, content, auth) ==
    IF auth.role = "anonymous" THEN [threw |-> TRUE, file |-> file]
    ELSE [threw |-> FALSE, file |-> TypesFile(TRUE, content)]

\* what a tool call was given and what it answered
ToolCall(tool, token, before, isError) ==
    [tool |-> tool, token |-> token, before |-> before, isError |-> isError]
NoCall == ToolCall("none", AbsentToken, TypesFile(FALSE, <<>>), FALSE)
Names(text) == {text[i].name : i \in DOMAIN text}
InterfaceNames(text) == {text[i].name : i \in {j \in DOMAIN text : text[j].kind = "interface"}}

\* index.ts 1170-1204 (the catch of 1391-1400 answers a raised error)
ListTypes ==
    /\ lastCall' = ToolCall("list_types", AbsentToken, typesContent, ReadTypes(typesContent).threw)
    /\ UNCHANGED <<unitVars, foodVars, inferVars, recVars, pickVars, extractVars, typesContent,
                   defaultAuthToken>>

\* index.ts 1206-1234
GetTypeDefinition(TypeNames) ==
    \E typeName \in TypeNames :
        /\ lastCall' = ToolCall("get_type_definition", AbsentToken, typesContent,
                                ReadTypes(typesContent).threw
                                \/ typeName \notin Names(typesContent.text))
        /\ UNCHANGED <<unitVars, foodVars, inferVars, recVars, pickVars, extractVars, typesContent,
                       defaultAuthToken>>

\* index.ts 1236-1274
ValidateData(TypeNames) ==
    \E typeName \in TypeNames :
        /\ lastCall' = ToolCall("validate_data", AbsentToken, typesContent,
                                ReadTypes(typesContent).threw
                                \/ typeName \notin InterfaceNames(typesContent.text))
        /\ UNCHANGED <<unitVars, foodVars, inferVars, recVars, pickVars, extractVars, typesContent,
                       defaultAuthToken>>

\* index.ts 1308-1338; the editor update of 1316-1325 writes other files and
\* its errors are caught
AddTypeDefinition(Definitions, TokenSet) ==
    \E typeDefinition \in Definitions, authToken \in TokenSet :
        LET auth == VerifyAuth(authToken, defaultAuthToken)
            old == ReadTypes(typesContent)
            written == WriteTypes(typesContent, Append(old.content, typeDefinition), auth)
        IN /\ Len(typesContent.text) < MaxDefs
           /\ typesContent' = IF old.threw THEN typesContent ELSE written.file
           /\ lastCall' = ToolCall("add_type_definition", authToken, typesContent,
                                   old.threw \/ written.threw)
           /\ UNCHANGED <<unitVars, foodVars, inferVars, recVars, pickVars, extractVars,
                          defaultAuthToken>>

TypeDefinitions == {[name |-> "A", kind |-> "interface"], [name |-> "B", kind |-> "type"]}
TypeNames == {"A", "B", "C"}
AuthTokens ==
    {AbsentToken, EmptyToken, GarbageToken}
    \cup {Jwt(key, expired, role, "u1") :
             key \in {"JWT_SECRET", "other"}, expired \in BOOLEAN,
             role \in {"admin", "user", "none", "anonymous"}}
DefaultTokens ==
    {AbsentToken, EmptyToken, GarbageToken, Jwt("JWT_SECRET", FALSE, "user", "u0"),
     Jwt("JWT_SECRET", TRUE, "admin", "u0")}
InitTools ==
    /\ FoodIdle /\ InferIdle /\ RecIdle /\ PickIdle /\ ExtractIdle /\ UnitsIdle
    /\ typesContent \in {TypesFile(FALSE, <<>>), TypesFile(TRUE, <<>>)}
    /\ defaultAuthToken \in DefaultTokens
    /\ lastCall = NoCall
NextTools ==
    \/ ListTypes
    \/ GetTypeDefinition(TypeNames)
    \/ ValidateData(TypeNames)
    \/ AddTypeDefinition(TypeDefinitions, AuthTokens)
SpecTools == InitTools /\ [][NextTools]_vars

\* --- requests under every key configuration, caller hint and catalog answer ---
ParamsRequest ==
    [query : {<<>>, sSoup}, title : {<<>>, sSalt}, type : {<<>>},
     quantity : {Undefined}, ids : {<<>>, <<UrlRef>>, <<EanRef>>}]
KeySetsRequest == SUBSET {"groq", "openRouter", "gemini"}
sBearerKey == sBearer \o <<"k">>
Hints ==
    {NoHint,
     [authorization |-> sBearerKey, provider |-> NoLabel],
     [authorization |-> sBearerKey, provider |-> StrLabel(<<"G", "e", "m", "i", "n", "i">>)],
     [authorization |-> sBearerKey, provider |-> StrLabel(sOpenrouter)],
     [authorization |-> sBearer, provider |-> NoLabel],
     [authorization |-> <<"B", "a", "s", "i", "c", " ", "k">>, provider |-> StrLabel(sGemini)]}
ProductList(n) == [i \in 1..n |-> i]
CatalogResponses ==
    {Failure("error"), Failure("timeout"), Failure("notOk"), Ok(ProductList(1)),
     Ok(ProductList(MaxProducts))}
PagesRequest == {[text |-> <<>>, ingredients |-> <<>>]}
AnswersRequest == {Item(sSoup, <<>>, Num(7), Process(StrLabel(sMixing), Array(<<>>)))}

InitRequest ==
    /\ InitFood(ParamsRequest, KeySetsRequest, Hints, {RegistryFileTypes})
    /\ InferIdle /\ RecIdle /\ PickIdle /\ ExtractIdle /\ ToolsIdle /\ UnitsIdle
NextRequest == NextFood(PagesRequest, AnswersRequest, CatalogResponses)
SpecRequest == InitRequest /\ [][NextRequest]_vars

\* --- the same requests with the steps the code itself drives or bounds by a
\* timer taken eventually: the scrape, the two catalog lookups (12 s timer
\* each) and the synchronous stretches; nothing bounds the provider call ---
ParamsLive ==
    [query : {<<>>, sSoup}, title : {<<>>}, type : {<<>>},
     quantity : {Undefined}, ids : {<<>>, <<UrlRef>>, <<EanRef>>}]
CatalogResponsesLive == {Failure("timeout"), Ok(ProductList(1))}
InitLive ==
    /\ InitFood(ParamsLive, KeySetsRequest, {NoHint}, {RegistryFileTypes})
    /\ InferIdle /\ RecIdle /\ PickIdle /\ ExtractIdle /\ ToolsIdle /\ UnitsIdle
NextLive == NextFood(PagesRequest, AnswersRequest, CatalogResponsesLive)
\* the steps of a request that the code drives itself or bounds by a timer;
\* the page fetch of the scrape and the answers of the catalog sources are
\* granted too, so that the settlement of the provider call is the only step
\* left without fairness
LocalStep ==
    \/ SkipRef \/ ScrapeRef(PagesRequest) \/ ScrapeFails
    \/ ReturnEmpty \/ StartCatalog \/ OffHeaders \/ FdcHeaders
    \/ OffSettles(CatalogResponsesLive) \/ FdcSettles(CatalogResponsesLive)
    \/ NoProviderKey \/ CallProvider
\* CatalogSettled and Finish are synchronous stretches that leave their own
\* guard: weak fairness of each says that its guard does not hold forever
CatalogSettledEnabled == pc = "catalog" /\ offCall = "settled" /\ fdcCall = "settled"
FinishEnabled == pc = "post"
SpecRequestFair ==
    /\ InitLive /\ [][NextLive]_vars
    /\ WF_vars(LocalStep)
    /\ []<>~CatalogSettledEnabled
    /\ []<>~FinishEnabled

\* --- the same requests with only the steps taken eventually that the code
\* itself guarantees: its synchronous stretches and the abort of an armed
\* 12 s timer; no page, catalog source or provider is assumed to answer ---
TimerFires == {Failure("timeout")}
TimedStep ==
    \/ SkipRef \/ ReturnEmpty \/ StartCatalog
    \/ OffSettles(TimerFires) \/ FdcSettles(TimerFires)
    \/ NoProviderKey \/ CallProvider
SpecRequestTimed ==
    /\ InitLive /\ [][NextLive]_vars
    /\ WF_vars(TimedStep)
    /\ []<>~CatalogSettledEnabled
    /\ []<>~FinishEnabled

\* --- the extractor on texts that list ingredients after a keyword ---
sFlour == <<"F", "l", "o", "u", "r">>
sSugar == <<"S", "u", "g", "a", "r">>
\* an ingredient as it is written: its name, and the percentage behind it
Written(name, percentText, percent) == [name |-> name, percentText |-> percentText, percent |-> percent]
WrittenText(w) == IF w.percentText = <<>> THEN w.name ELSE w.name \o <<" ">> \o w.percentText
WrittenItems ==
    {Written(sFlour, <<"5", "0", "%">>, Num(50)),
     Written(sWater, <<"3", "0", "%">>, Num(30)),
     Written(sSalt, <<>>, Undefined),
     Written(sSugar, <<"2", ".", "5", "%">>, Decimal(2, <<"5">>))}
ListPrefixes ==
    {<<"I", "n", "g", "r", "e", "d", "i", "e", "n", "t", "s", ":", " ">>,
     <<"I", "n", "g", "r", "e", "d", "i", "e", "n", "t", "s", ":">>,
     <<"C", "o", "m", "p", "o", "s", "i", "t", "i", "o", "n", " ", "-", " ">>}
ListSuffixes == {<<>>, <<".", " ", "K", "e", "e", "p", " ", "d", "r", "y", ".">>}
ListText(prefix, written, suffix) ==
    prefix \o Join([i \in DOMAIN written |-> WrittenText(written[i])], <<",", " ">>) \o suffix
ExtractTexts ==
    {[text |-> ListText(prefix, written, suffix), written |-> written] :
        prefix \in ListPrefixes, written \in SeqsUpTo(WrittenItems, MaxListed),
        suffix \in ListSuffixes}

InitExtract ==
    /\ FoodIdle /\ InferIdle /\ RecIdle /\ PickIdle /\ ToolsIdle /\ UnitsIdle
    /\ extractText \in ExtractTexts
    /\ extractResult = NotExtracted
NextExtract == CallExtractIngredients
SpecExtract == InitExtract /\ [][NextExtract]_vars

\* --- the classifier on registry types, free-form labels and short texts ---
PickAlphabet == {"m", "i", "x", " "}
sPrintShop == <<"P", "r", "i", "n", "t", " ", "s", "h", "o", "p">>
PickLabels ==
    {NoLabel, NumberLabel}
    \cup {StrLabel(t) : t \in Range(RegistryFileTypes)}
    \cup {StrLabel(sMixing), StrLabel(sGrinding), StrLabel(sDryMix), StrLabel(sPrintShop)}
    \cup {StrLabel(t) : t \in StringsUpTo(PickAlphabet, MaxTextLen)}
PickTypeLists ==
    {RegistryFileTypes, DefaultProcessTypes, RankedProcessTypes(RegistryFileTypes),
     RankedProcessTypes(DefaultProcessTypes), <<tSale, tHarvest>>, <<>>}

InitPick ==
    /\ FoodIdle /\ InferIdle /\ RecIdle /\ ExtractIdle /\ ToolsIdle /\ UnitsIdle
    /\ pickArgs \in [rawType : PickLabels, validTypes : PickTypeLists]
    /\ pickResult = [phase |-> "none", first |-> NotPicked, second |-> NotPicked]
NextPick == CallPick \/ CallPickAgain
SpecPick == InitPick /\ [][NextPick]_vars

(***************************************************************************)
(* Properties                                                              *)
(***************************************************************************)
\* --- the extractor on texts with no, one or two keyword sections ---
AnchorKeywords ==
    {<<"I", "n", "g", "r", "e", "d", "i", "e", "n", "t", "s", ":", " ">>,
     <<"C", "o", "m", "p", "o", "s", "i", "t", "i", "o", "n", ":", " ">>,
     <<"Z", "u", "t", "a", "t", "e", "n", ":", " ">>}
AnchorItems ==
    {Written(sSalt, <<>>, Undefined), Written(sSugar, <<>>, Undefined),
     Written(sFlour, <<"5", "0", "%">>, Num(50))}
Section(keyword, item) == [text |-> keyword \o WrittenText(item) \o <<".", " ">>, item |-> item]
Sections == {Section(k, w) : k \in AnchorKeywords, w \in AnchorItems}
sKeepDry == <<"K", "e", "e", "p", " ", "d", "r", "y", ".", " ">>
\* the text of the sections in their order, and the list written in the last one
AnchorText(lead, sections) ==
    [text |-> lead \o (IF Len(sections) = 0 THEN <<>>
                       ELSE IF Len(sections) = 1 THEN sections[1].text
                       ELSE sections[1].text \o sections[2].text),
     sections |-> Len(sections),
     written |-> IF Len(sections) = 0 THEN <<>> ELSE <<sections[Len(sections)].item>>]
AnchorTexts ==
    {AnchorText(lead, sections) : lead \in {<<>>, sKeepDry}, sections \in SeqsUpTo(Sections, 2)}
InitAnchor ==
    /\ FoodIdle /\ InferIdle /\ RecIdle /\ PickIdle /\ ToolsIdle /\ UnitsIdle
    /\ extractText \in AnchorTexts
    /\ extractResult = NotExtracted
SpecAnchor == InitAnchor /\ [][NextExtract]_vars

\* --- several requests that share the cache of getDefinedProcessTypes ---
\* Each request runs on the one thread of the event loop and yields only at
\* its awaits; getDefinedProcessTypes (lines 12-34) contains no await, so a
\* call is one step. Between the steps of the requests the registry file may
\* be rewritten on disk.
Requests == 1..MaxRequests
Registry(exists, types) == [exists |-> exists, types |-> types]
Scanned(file) == IF file.exists THEN file.types ELSE <<>>
RegistryFiles ==
    {Registry(FALSE, <<>>), Registry(TRUE, <<>>), Registry(TRUE, <<tBlending, tCooking>>),
     Registry(TRUE, RegistryFileTypes)}

\* line 302 of one request: the call returns the cache array itself
CallGetDefinedProcessTypes(r) ==
    /\ reqState[r] = "waiting"
    /\ sharedCache' = GetDefinedProcessTypes(sharedCache, Scanned(registry))
    /\ registryReads' = registryReads + (IF Len(sharedCache) = 0 /\ registry.exists THEN 1 ELSE 0)
    /\ validTypesOf' = [validTypesOf EXCEPT ![r] = sharedCache']
    /\ reqState' = [reqState EXCEPT ![r] = "called"]
    /\ UNCHANGED <<registry, seenAtEnd, distVars, foodVars, inferVars, recVars, pickVars,
                   extractVars, toolVars>>

\* lines 506-508 of one request, after its provider call: the array that line
\* 302 returned is read again
RequestFinishes(r) ==
    /\ reqState[r] = "called"
    /\ seenAtEnd' = [seenAtEnd EXCEPT ![r] = sharedCache]
    /\ reqState' = [reqState EXCEPT ![r] = "done"]
    /\ UNCHANGED <<registry, sharedCache, registryReads, validTypesOf, distVars, foodVars,
                   inferVars, recVars, pickVars, extractVars, toolVars>>

\* the registry file is rewritten (add_type_definition, a deployment)
RegistryChanges(Files) ==
    /\ \E file \in Files : file # registry /\ registry' = file
    /\ \E r \in Requests : reqState[r] # "done"
    /\ UNCHANGED <<sharedCache, registryReads, reqState, validTypesOf, seenAtEnd, distVars,
                   foodVars, inferVars, recVars, pickVars, extractVars, toolVars>>

InitCache ==
    /\ FoodIdle /\ InferIdle /\ RecIdle /\ PickIdle /\ ExtractIdle /\ ToolsIdle /\ DistIdle
    /\ registry \in RegistryFiles
    /\ sharedCache = <<>>
    /\ registryReads = 0
    /\ reqState = [r \in Requests |-> "waiting"]
    /\ validTypesOf = [r \in Requests |-> <<>>]
    /\ seenAtEnd = [r \in Requests |-> <<>>]
NextCache ==
    \/ \E r \in Requests : CallGetDefinedProcessTypes(r)
    \/ \E r \in Requests : RequestFinishes(r)
    \/ RegistryChanges(RegistryFiles)
SpecCache == InitCache /\ [][NextCache]_vars

\* --- the mapping of the extracted list and the residual distribution, called
\* directly ---
NotDistributed == [done |-> FALSE, mapped |-> <<>>, items |-> <<>>]
\* lines 439-461: the extracted list is mapped to inputs, then the residual
\* is distributed
CallDistribute ==
    /\ ~distResult.done
    /\ distResult' =
          LET mapped == ExtractedToInputs(distArgs.extracted, distArgs.total)
          IN [done |-> TRUE, mapped |-> mapped,
              items |-> DistributeResidual(mapped, distArgs.extracted, distArgs.total)]
    /\ UNCHANGED <<distArgs, cacheVars, foodVars, inferVars, recVars, pickVars, extractVars,
                   toolVars>>

DistEntries ==
    {Ingredient(sFlour, Num(50)), Ingredient(sSalt, Num(1)), Ingredient(sSalt, Num(25)),
     Ingredient(sSugar, Undefined), Ingredient(sWater, Undefined)}
DistTotals == {NullTotal, Grams(1), Grams(10), Grams(100)}
InitDistribute ==
    /\ FoodIdle /\ InferIdle /\ RecIdle /\ PickIdle /\ ExtractIdle /\ ToolsIdle /\ CacheIdle
    /\ distArgs \in [extracted : SeqsUpTo(DistEntries, MaxListed), total : DistTotals]
    /\ distResult = NotDistributed
NextDistribute == CallDistribute
SpecDistribute == InitDistribute /\ [][NextDistribute]_vars

\* --- requests whose page lists ingredients and whose provider answers with
\* a list that is absent, empty, all zero, or that carries quantities ---
ParamsPrefer ==
    [query : {<<>>, sSoup1l, sSalt}, title : {<<>>}, type : {<<>>},
     quantity : {Undefined, Num(2)}, ids : {<<UrlRef>>, <<EanRef>>}]
PagesPrefer ==
    {[text |-> <<>>, ingredients |-> l] :
        l \in SeqsUpTo({Ingredient(sSalt, Num(25)), Ingredient(sSugar, Undefined),
                        Ingredient(sWater, Undefined)}, 2)}
AnswersPrefer ==
    {Item(<<>>, <<>>, Undefined, NoProcess)}
    \cup {Item(<<>>, <<>>, Num(0), Process(StrLabel(tBlending), Array(l))) :
            l \in {<<>>,
                   <<Input(sSalt, Num(0), NoProcess)>>,
                   <<Input(sSalt, Undefined, NoProcess), Input(sDough, Num(0), NoProcess)>>,
                   <<Input(sDough, Num(5), NoProcess)>>,
                   <<Input(sDough, Num(0), NoProcess), Input(sSalt, Num(3), NoProcess)>>}}
InitPrefer ==
    /\ InitFood(ParamsPrefer, KeySets, {NoHint}, {RegistryFileTypes})
    /\ InferIdle /\ RecIdle /\ PickIdle /\ ExtractIdle /\ ToolsIdle /\ UnitsIdle
NextPrefer == NextFood(PagesPrefer, AnswersPrefer, CatalogDown)
SpecPrefer == InitPrefer /\ [][NextPrefer]_vars

\* --- requests for a pack of 2 g, of 40 g or of one litre whose page lists
\* ingredients with small and with missing percentages ---
ParamsAllocate ==
    [query : {<<>>, sSoup1l, sSalt}, title : {<<>>}, type : {<<>>},
     quantity : {Undefined, Num(2), Num(40)}, ids : {<<UrlRef>>, <<EanRef>>}]
PagesAllocate ==
    {[text |-> <<>>, ingredients |-> l] :
        l \in SeqsUpTo({Ingredient(sSalt, Num(1)), Ingredient(sSalt, Num(25)),
                        Ingredient(sSugar, Undefined), Ingredient(sWater, Undefined)}, 3)}
AnswersAllocate ==
    {Item(<<>>, <<>>, Undefined, NoProcess),
     Item(<<>>, <<>>, Num(0), Process(StrLabel(tBlending), Array(<<>>)))}
InitAllocate ==
    /\ InitFood(ParamsAllocate, KeySets, {NoHint}, {RegistryFileTypes})
    /\ InferIdle /\ RecIdle /\ PickIdle /\ ExtractIdle /\ ToolsIdle /\ UnitsIdle
NextAllocate == NextFood(PagesAllocate, AnswersAllocate, CatalogDown)
SpecAllocate == InitAllocate /\ [][NextAllocate]_vars

\* --- requests whose provider answers with an input that has a process and
\* an input list of its own ---
NestedLists ==
    SeqsUpTo({Input(sSalt, Num(30), NoProcess), Input(sWater, Num(30), NoProcess),
              Input(sSalt, Num(0), NoProcess)}, 2)
AnswersNested ==
    {Item(<<>>, <<>>, Num(0),
          Process(StrLabel(tBlending),
                  Array(<<Input(sDough, Num(200), Process(StrLabel(tMilling), Array(l)))>>))) :
        l \in NestedLists}
InitNested ==
    /\ InitFood(ParamsPrefer, KeySets, {NoHint}, {RegistryFileTypes})
    /\ InferIdle /\ RecIdle /\ PickIdle /\ ExtractIdle /\ ToolsIdle /\ UnitsIdle
NextNested == NextFood(PagesRequest, AnswersNested, CatalogDown)
SpecNested == InitNested /\ [][NextNested]_vars

Returned_Item == pc = "done" /\ ret.kind = "item"
ExplicitQuantity == params.quantity.t = "number" /\ params.quantity.n > 0

\* the object the post-processing starts from, and whether it takes the extracted list
StartingItem == IF aiResult.isNull THEN DefaultTemplate(QueryOf(params)) ELSE aiResult
UsedExtracted == ShouldUseExtracted(StartingItem.process, extractedIngredients)

ReturnedInputs == ret.item.process.inputInstances.items

\* C1: for a non-empty query suggestFood never raises, whatever the provider
\* answers: it resolves to an item with a process whose inputInstances is a list.
C1_NeverRaises ==
    (pc = "done" /\ QueryOf(params) # <<>>) =>
        /\ ret.kind = "item"
        /\ ret.item.process.present
        /\ ret.item.process.inputInstances.kind = "array"

\* C2: every child quantity of the returned tree is >= 0 when the total is known.
C2_QuantitiesNonNegative ==
    (Returned_Item /\ TotalKnown(totalGrams) /\ UsedExtracted) =>
        \A x \in DOMAIN ReturnedInputs : ToNumber(QuantityOf(ReturnedInputs[x])) >= 0

\* C3: with a known total T, children detected as percentages that sum to at most
\* 100 and a water-like child, the children sum to exactly T after
\* normalizeInputQuantitiesToGrams.
C3_SumEqualsTotal ==
    (/\ recPhase = "normalized" /\ TotalKnown(recTotal)
     /\ LooksLikePercent(recOrig) /\ SumQuantities(recOrig) <= 100 /\ HasWater(recOrig)) =>
        SumQuantities(recInputs) = recTotal.n

\* what the conversion of percentages leaves in position x
ConvertedQuantity(orig, total, x) ==
    LET grams == [y \in DOMAIN orig |-> PercentToGrams(total, ToNumber(orig[y].quantity))]
        gramsSum == SumQuantities([y \in DOMAIN orig |-> [orig[y] EXCEPT !.quantity = Num(grams[y])]])
    IN grams[x] + (IF gramsSum < total /\ HasWater(orig) /\ x = FirstWater(orig)
                   THEN total - gramsSum ELSE 0)

AllWithinPercentRange(items) ==
    \A x \in DOMAIN items : items[x].quantity.n >= 0 /\ items[x].quantity.n <= 100
SomeAboveHundred(items) == \E x \in DOMAIN items : items[x].quantity.n > 100
IsConverted(items, orig, total) ==
    /\ Len(items) = Len(orig)
    /\ \A x \in DOMAIN orig : items[x].quantity = Num(ConvertedQuantity(orig, total, x))

\* C4 as stated: with a known total the children are converted as percentages
\* whenever every value is within [0,100] and the sum is <= 110, and left
\* untouched whenever a value is > 100.
C4_DetectionAsStated ==
    (recPhase = "normalized" /\ TotalKnown(recTotal) /\ Len(recOrig) > 0) =>
        /\ (AllWithinPercentRange(recOrig) /\ SumQuantities(recOrig) <= 110)
               => IsConverted(recInputs, recOrig, recTotal.n)
        /\ SomeAboveHundred(recOrig) => recInputs = recOrig

\* C4 amended: the children are converted as percentages whenever every value is
\* within [0,100] and the sum is > 0 and <= 110, and left untouched whenever a
\* value is > 100.
C4_Detection ==
    (recPhase = "normalized" /\ TotalKnown(recTotal) /\ Len(recOrig) > 0) =>
        /\ (AllWithinPercentRange(recOrig) /\ SumQuantities(recOrig) > 0
                /\ SumQuantities(recOrig) <= 110)
               => IsConverted(recInputs, recOrig, recTotal.n)
        /\ SomeAboveHundred(recOrig) => recInputs = recOrig

\* a list is converted, and one with a value above 100 is kept, in the same run
C4_Converted ==
    /\ recPhase = "normalized" /\ TotalKnown(recTotal)
    /\ Len(recOrig) > 1
    /\ SumQuantities(recOrig) = 110 /\ AllWithinPercentRange(recOrig)
    /\ recInputs # recOrig

\* C5: with the extracted list in use and a known total T, an ingredient
\* extracted with percent p has the quantity round(T * p / 100); a water-like
\* one may carry the shortfall on top.
C5_PercentToGrams ==
    (Returned_Item /\ TotalKnown(totalGrams) /\ UsedExtracted) =>
        \A x \in DOMAIN extractedIngredients :
            HasPercent(extractedIngredients[x]) =>
                LET grams == PercentToGrams(totalGrams.n, extractedIngredients[x].percent.n)
                IN \/ ReturnedInputs[x].quantity = Num(grams)
                   \/ IsWaterLike(ReturnedInputs[x]) /\ ReturnedInputs[x].quantity.n >= grams

\* C6: the returned item quantity is the explicit positive quantity of the
\* caller, or else the inferred total, whatever the provider put there.
C6_ItemQuantity ==
    Returned_Item =>
        /\ ExplicitQuantity => ret.item.quantity = Num(params.quantity.n)
        /\ (~ExplicitQuantity /\ TotalKnown(totalGrams)) => ret.item.quantity = Num(totalGrams.n)

\* a number directly followed by a unit word, or a "1 liter" phrase
TextualBasis(lower) ==
    \/ UnitMatch(lower, LiterUnits).ok \/ UnitMatch(lower, MlUnits).ok
    \/ UnitMatch(lower, KgUnits).ok \/ UnitMatch(lower, GUnits).ok
    \/ Includes(lower, OneLiter) \/ Includes(lower, OneLitre)

\* C7: without an explicit positive quantity inferTotalGrams returns a number
\* only if the texts hold a number directly followed by a unit word or a
\* "1 liter" phrase, and null for every other input.
C7_NeverInventsTotal ==
    (/\ inferResult.done
     /\ ~(inferArgs.explicitQuantity.t = "number" /\ inferArgs.explicitQuantity.n > 0)
     /\ ~inferResult.total.isNull) =>
        TextualBasis(InferSources(inferArgs.query, inferArgs.contextText, inferArgs.ids))

\* C8: with no total inferred and the result built from the default template or
\* from the extracted list, the item quantity and every child quantity are 0
\* (an absent one counts as 0) and no Water child is added.
C8_TotalUnknown ==
    (Returned_Item /\ totalGrams.isNull /\ (aiResult.isNull \/ UsedExtracted)) =>
        /\ ~Truthy(ret.item.quantity)
        /\ \A x \in DOMAIN ReturnedInputs : ReturnedInputs[x].quantity = Num(0)
        /\ Len(ReturnedInputs) = IF UsedExtracted THEN Len(extractedIngredients) ELSE 0

\* C9 as stated: running the reconciliation pass twice gives the same tree as
\* running it once.
C9_TwiceIsOnce == recPhase = "pass2" => recInputs = recPass1

\* C9 amended: the pass changes nothing on the tree a pass produced, provided
\* the quantities of that tree are not percentage-looking.
C9_Idempotent == (recPhase = "pass2" /\ ~LooksLikePercent(recPass1)) => recInputs = recPass1

\* the first pass converted percentages and filled the shortfall with a new
\* Water child, and the second pass ran on that tree
C9_SecondPassOnGrams ==
    /\ recPhase = "pass2" /\ ~LooksLikePercent(recPass1)
    /\ recPass1 # recOrig /\ Len(recPass1) > Len(recOrig) /\ LooksLikePercent(recOrig)

\* every process of the tree has a type of the given set
RECURSIVE AllTypesValid(_, _)
AllTypesValid(proc, enum) ==
    proc.present =>
        /\ proc.type.t = "string" /\ proc.type.s \in enum
        /\ proc.inputInstances.kind = "array" =>
               \A x \in DOMAIN proc.inputInstances.items :
                   ~proc.inputInstances.items[x].null
                       => AllTypesValid(proc.inputInstances.items[x].process, enum)

\* C10: every process of the returned tree, at any depth, has a type of the
\* currently valid process-type enum.
C10_TypesValid == Returned_Item => AllTypesValid(ret.item.process, Range(cachedProcessTypes))

\* a tree is returned whose input at depth two had the free-form label "dry mix"
C10_DeepLabelRetyped ==
    /\ Returned_Item
    /\ \E x \in DOMAIN ReturnedInputs :
        /\ ~ReturnedInputs[x].null
        /\ x \in DOMAIN aiResult.process.inputInstances.items
        /\ aiResult.process.inputInstances.items[x].process = DeepProcess
        /\ ReturnedInputs[x].process.type = StrLabel(tMilling)
        /\ ReturnedInputs[x].process.inputInstances.items[1].process.type = StrLabel(tFreezedrying)

\* C11: pickClosestProcessType never throws and, for any label (a string, the
\* empty string, a missing one or a non-string JSON value) and any non-empty
\* list of valid types, returns a member of that list.
C11_PickTotal ==
    (pickResult.phase # "none" /\ Len(pickArgs.validTypes) > 0) =>
        /\ ~pickResult.first.threw
        /\ pickResult.first.type \in Range(pickArgs.validTypes)

\* C12: classifying the outcome of a classification again, with the same list
\* of valid types, gives the outcome of the first classification.
C12_PickIdempotent == pickResult.phase = "twice" => pickResult.second = pickResult.first

\* a free-form label was classified by the ranking, and the type found was
\* classified again
C12_RankedThenAgain ==
    /\ pickResult.phase = "twice" /\ ~pickResult.first.threw
    /\ pickArgs.rawType = StrLabel(sDryMix)
    /\ pickArgs.validTypes = RegistryFileTypes
    /\ pickResult.second.type = tFreezedrying

\* C13: extractIngredientsFromText returns the ingredients written after the
\* keyword in the order they are written, each with the percentage written
\* behind it, and without a percentage when none is written.
C13_SourceOrder ==
    extractResult.done =>
        /\ Len(extractResult.entries) = Len(extractText.written)
        /\ \A i \in DOMAIN extractText.written :
               /\ extractResult.entries[i].name = extractText.written[i].name
               /\ extractResult.entries[i].percent = extractText.written[i].percent

NoQuerySignal == params.query = <<>> /\ params.title = <<>> /\ params.type = <<>>

\* C14: a request without query, title and type returns the explicit empty
\* result, and no catalog lookup and no provider call is ever issued for it.
C14_NoSignalNoCalls ==
    (pc # "idle" /\ NoQuerySignal) =>
        /\ offCall = "idle" /\ fdcCall = "idle"
        /\ providerLog = <<>> /\ inFlight = {}
        /\ pc = "done" => ret = EmptyResult

\* a request without a query signal, whose reference locator was visited,
\* has returned
C14_ReturnedEmpty ==
    /\ pc = "done" /\ NoQuerySignal /\ ret = EmptyResult
    /\ Len(params.ids) > 0 /\ refIdx > Len(params.ids)

\* the candidates a source contributes: at most limit of the products of its
\* OK answer, in their order, and none when it failed
Contribution(response, source, limit) ==
    IF response.kind # "ok" THEN <<>>
    ELSE [i \in 1..(IF Len(response.list) < limit THEN Len(response.list) ELSE limit) |->
             [source |-> source, id |-> response.list[i]]]
FromSource(list, source) == SelectSeq(list, LAMBDA c : c.source = source)

\* C15: in every order in which the two catalog lookups settle, a failed one
\* raises nothing, and the other source contributes the candidates of its own
\* answer whatever the first one did.
C15_CatalogIsolation ==
    /\ (pc = "catalog" /\ (offCall = "settled" \/ fdcCall = "settled")) => ret = Pending
    /\ offCall = "settled" => products = (IF offResponse.kind = "ok" THEN offResponse.list ELSE <<>>)
    /\ fdcCall = "settled" => fdcProducts = (IF fdcResponse.kind = "ok" THEN fdcResponse.list ELSE <<>>)
    /\ pc \in {"provider", "post", "done"} /\ ~NoQuerySignal =>
           /\ FromSource(candidates, "OpenFoodFacts") = Contribution(offResponse, "OpenFoodFacts", 10)
           /\ FromSource(candidates, "USDA FDC") = Contribution(fdcResponse, "USDA FDC", 5)
           /\ pc = "provider" => ret = Pending

\* one lookup timed out, the other answered with more products than are
\* kept, and the request went on with the candidates of that one
C15_OneSourceDown ==
    /\ pc = "provider"
    /\ offResponse.kind = "timeout" /\ fdcResponse.kind = "ok"
    /\ Len(fdcResponse.list) > 5 /\ Len(candidates) = 5

\* C16: a request with a query signal eventually returns, also when the
\* provider that was called never answers.
C16_EventuallyReturns == (pc = "scrape" /\ ~NoQuerySignal) ~> (pc = "done")

\* a token as the claim describes it: missing, invalid or expired
MissingToken(token) == token.kind \in {"absent", "empty"}
InvalidToken(token) == token.kind = "garbage" \/ (token.kind = "jwt" /\ token.key # "JWT_SECRET")
ExpiredToken(token) == token.kind = "jwt" /\ token.expired

\* C17: add_type_definition called with a missing, invalid or expired token
\* while no default token is configured answers an error and leaves the types
\* file as it was; list_types, get_type_definition and validate_data never
\* change the file.
C17_AuthRequired ==
    /\ (/\ lastCall.tool = "add_type_definition"
        /\ MissingToken(defaultAuthToken)
        /\ MissingToken(lastCall.token) \/ InvalidToken(lastCall.token)
           \/ ExpiredToken(lastCall.token)) =>
           lastCall.isError /\ typesContent = lastCall.before
    /\ lastCall.tool \in {"list_types", "get_type_definition", "validate_data"} =>
           typesContent = lastCall.before

\* an expired admin token signed with the server's key was refused on a file
\* that an earlier authenticated call had extended
C17_ExpiredRefused ==
    /\ lastCall.tool = "add_type_definition"
    /\ lastCall.token = Jwt("JWT_SECRET", TRUE, "admin", "u1")
    /\ MissingToken(defaultAuthToken)
    /\ lastCall.isError
    /\ Len(typesContent.text) > 0

\* C18: when the provider called first fails and a key of another provider is
\* configured, the next provider is called before the default template is used.
C18_NextProviderTried ==
    (/\ pc \in {"post", "done"} /\ Len(providerLog) > 0
     /\ providerLog[1].outcome = "failed"
     /\ Cardinality(keys) > 1) =>
        Len(providerLog) > 1

CallerHinted == RouteKeys(hint).set # {}

\* C19: the provider the caller hinted (provider header and bearer key) is the
\* first provider called, whatever keys the server configuration holds.
C19_HintedFirst ==
    (CallerHinted /\ Len(providerLog) > 0) => providerLog[1].provider = HintedProvider(hint)

\* C20: at most one provider call is in flight at any moment, and no provider
\* is called after a provider has returned a JSON object.
C20_Sequential ==
    /\ Cardinality(inFlight) <= 1
    /\ \A i \in DOMAIN providerLog :
           providerLog[i].outcome = "parsed" => i = Len(providerLog)
    /\ \A i \in DOMAIN providerLog :
           providerLog[i].outcome = "pending" => i = Len(providerLog) /\ inFlight # {}

\* the first provider returned a JSON object while the keys of all three
\* providers were set, and the request went on without another call
C20_ParsedNoSecondCall ==
    /\ pc = "done" /\ Cardinality(keys) = 3
    /\ Len(providerLog) = 1 /\ providerLog[1].outcome = "parsed"

\* C21: each catalog lookup is bounded in time: a lookup whose source has not
\* delivered its complete response within the budget is aborted by its own
\* timer, so that the wait for both lookups always ends and the request goes on.
C21_LookupsBounded == (pc = "catalog") ~> (offCall = "settled" /\ fdcCall = "settled")

\* C22: the catalog lookups are started without waiting for the scraping of
\* the reference locators, so that a page fetch that hangs does not delay them.
C22_CatalogNotBehindScrape ==
    (pc = "scrape" /\ ~NoQuerySignal) ~> (offCall # "idle" /\ fdcCall # "idle")

\* the provider's input list, and whether it is empty or all zero/undefined
ModelList ==
    IF StartingItem.process.present /\ StartingItem.process.inputInstances.kind = "array"
    THEN StartingItem.process.inputInstances.items ELSE <<>>
ModelAllZero == \A x \in DOMAIN ModelList : ModelList[x].quantity \in {Num(0), Undefined}
InputNames(list) == [x \in DOMAIN list |-> list[x].type]
ExtractedNames == [x \in DOMAIN extractedIngredients |-> extractedIngredients[x].name]
PlusAtMostWater(names, base) == names = base \/ names = Append(base, sWater)

\* C23 as stated: when the provider's list is empty or all zero and something
\* was extracted, the returned inputs are the extracted ingredients in their
\* order plus at most one synthetic Water child; otherwise the returned inputs
\* are the provider's list.
C23_PreferenceAsStated ==
    Returned_Item =>
        IF Len(extractedIngredients) > 0 /\ ModelAllZero
        THEN PlusAtMostWater(InputNames(ReturnedInputs), ExtractedNames)
        ELSE InputNames(ReturnedInputs) = InputNames(ModelList)

\* C23: when the provider's list is empty or all zero and something was
\* extracted, the returned inputs are the extracted ingredients in their
\* order; otherwise they are the provider's inputs in their order; in both
\* cases at most one synthetic Water child follows them.
C23_Preference ==
    Returned_Item =>
        IF Len(extractedIngredients) > 0 /\ ModelAllZero
        THEN PlusAtMostWater(InputNames(ReturnedInputs), ExtractedNames)
        ELSE PlusAtMostWater(InputNames(ReturnedInputs), InputNames(ModelList))

\* a provider's list of two entries without quantities was replaced by the
\* extracted list, and a synthetic Water child follows it
C23_ExtractedPreferred ==
    /\ Returned_Item /\ Len(ModelList) = 2 /\ ModelAllZero
    /\ Len(extractedIngredients) > 0
    /\ InputNames(ReturnedInputs) = Append(ExtractedNames, sWater)
    /\ ExtractedNames # InputNames(ModelList)

\* C24: with a known total T the mass left by the percent-bearing ingredients
\* is divided evenly across the percent-less ingredients and only across
\* them: an ingredient with an explicit percentage keeps the grams of its
\* percentage and receives no share of the residual.
C24_ResidualOnlyToPercentless ==
    (distResult.done /\ TotalKnown(distArgs.total)) =>
        \A x \in DOMAIN distArgs.extracted :
            HasPercent(distArgs.extracted[x]) =>
                distResult.items[x].quantity =
                    Num(PercentToGrams(distArgs.total.n, distArgs.extracted[x].percent.n))

\* the children the backfill starts from, their sum, and the first water child
BeforeBackfill == NormalizeInputQuantitiesToGrams(Array(recOrig), recTotal).items
RECURSIVE SumOf(_)
SumOf(list) == IF Len(list) = 0 THEN 0 ELSE list[1].quantity.n + SumOf(Tail(list))
WaterAt(list) == {x \in DOMAIN list : list[x].type = sWater}
Shortfall == recTotal.n - SumOf(BeforeBackfill)
BackfillApplies == ~recTotal.isNull /\ recTotal.n > 0 /\ Shortfall > 0 /\ recText = sSoup

\* C25: when the total T is known, the children sum to less than T and the
\* item text is liquid-like, the shortfall goes to the first water-like child,
\* or else exactly one new Water child is appended, and the children then
\* sum to T; otherwise no quantity changes and no child is added.
C25_Backfill ==
    recPhase = "pass1" =>
        IF BackfillApplies
        THEN /\ SumOf(recPass1) = recTotal.n
             /\ IF WaterAt(BeforeBackfill) # {}
                THEN LET w == CHOOSE x \in WaterAt(BeforeBackfill) :
                                  \A y \in WaterAt(BeforeBackfill) : x <= y
                     IN recPass1 = [BeforeBackfill EXCEPT
                                       ![w].quantity = Num(@.n + Shortfall)]
                ELSE recPass1 = Append(BeforeBackfill, Input(sWater, Num(Shortfall), NoProcess))
        ELSE recPass1 = BeforeBackfill

\* the shortfall went to the first of two water children, which is not the
\* first child
C25_ShortfallToFirstWater ==
    /\ recPhase = "pass1" /\ BackfillApplies
    /\ Cardinality(WaterAt(BeforeBackfill)) = 2 /\ 1 \notin WaterAt(BeforeBackfill)
    /\ recPass1 # BeforeBackfill

\* C26: a process type of the provider's answer that is a member of the valid
\* process-type enum read from the registry is returned unchanged.
C26_ExactMatchKept ==
    (/\ Returned_Item /\ ~aiResult.isNull /\ aiResult.process.present
     /\ aiResult.process.type.t = "string"
     /\ aiResult.process.type.s \in Range(cachedProcessTypes)) =>
        ret.item.process.type = aiResult.process.type

\* C27: the extractor parses from the latest occurrence of any keyword of the
\* set: of two keyword sections it returns the list of the later one, and of
\* a text without a keyword the empty list.
C27_AnchorsAtLatestKeyword ==
    extractResult.done =>
        IF extractText.sections = 0 THEN extractResult.entries = <<>>
        ELSE /\ Len(extractResult.entries) = 1
             /\ extractResult.entries[1].name = extractText.written[1].name
             /\ extractResult.entries[1].percent = extractText.written[1].percent

\* the first Len(orig) quantities of items are those the percentage conversion
\* of orig for the total gives
ConvertedPrefix(items, orig, total) ==
    /\ Len(items) >= Len(orig)
    /\ \A y \in DOMAIN orig : items[y].quantity = Num(ConvertedQuantity(orig, total, y))

\* C28: the quantity reconciliation is applied to the input list of every
\* nested input that carries its own process: a nested list of percentages is
\* converted to grams (of the known total, or of the quantity of its parent).
C28_NestedReconciled ==
    (Returned_Item /\ TotalKnown(totalGrams) /\ ~aiResult.isNull) =>
        \A x \in DOMAIN ModelList :
            LET nested == ModelList[x].process
            IN (/\ nested.present /\ nested.inputInstances.kind = "array"
                /\ LooksLikePercent(nested.inputInstances.items)) =>
                   LET got == ReturnedInputs[x].process.inputInstances.items
                       orig == nested.inputInstances.items
                   IN \/ ConvertedPrefix(got, orig, totalGrams.n)
                      \/ /\ ModelList[x].quantity.t = "number"
                         /\ ConvertedPrefix(got, orig, ModelList[x].quantity.n)

\* C29: under every interleaving of the requests, every call of
\* getDefinedProcessTypes returns the same complete non-empty list, which no
\* request finds changed later, and the registry is read at most once.
C29_WriteOnce ==
    /\ registryReads <= 1
    /\ \A r \in Requests :
           reqState[r] # "waiting" =>
               /\ Len(validTypesOf[r]) > 0
               /\ validTypesOf[r] = sharedCache
               /\ \A q \in Requests : reqState[q] # "waiting" => validTypesOf[q] = validTypesOf[r]
    /\ \A r \in Requests : reqState[r] = "done" => seenAtEnd[r] = validTypesOf[r]

\* all requests have finished with the list the first call read, although
\* the registry on disk holds another list by now
C29_StaleButSame ==
    /\ \A r \in Requests : reqState[r] = "done"
    /\ registryReads = 1
    /\ registry.exists /\ Len(registry.types) > 0 /\ registry.types # sharedCache

\* C30: when the total is known and the request takes the extracted list whose
\* written percentages sum to less than 100, the child quantities of the
\* returned tree sum to at most the total.
C30_NoOverAllocation ==
    (/\ Returned_Item /\ TotalKnown(totalGrams) /\ UsedExtracted
     /\ KnownPercentTotal(extractedIngredients) < 100) =>
        SumQuantities(ReturnedInputs) <= totalGrams.n

====
